---------------------------- MODULE Spec2Model ----------------------------
(***************************************************************************)
(* Goal progress synchronisation of the goodhealth backend:                *)
(*   app/services/goal_sync.py   strategies, is_goal_achieved, sync runs   *)
(*   app/services/goals_crud.py  calculate_goal_status, goal CRUD          *)
(*   app/services/workouts.py    activity operations that trigger a sync   *)
(*   app/routers/goals.py        the single-goal sync endpoint             *)
(*                                                                         *)
(* Numbers are fixed-point with one decimal: the integer n stands for the  *)
(* value n/10 (a count of 1 workout is 10).  Python's None is the integer  *)
(* None below; every modelled value is >= 0, so it is never mistaken.      *)
(***************************************************************************)
EXTENDS Integers, Sequences, FiniteSets, TLC

VARIABLES
    goals,          \* table "goals": sequence of rows, the id is the index
    workouts,       \* table "workouts"
    exercises,      \* table "exercises"
    measurements,   \* table "body_measurements"
    now,            \* the clock read by datetime.now() and now()
    pc,             \* position of the request being served
    run,            \* locals of the sync run in progress / last finished
    result,         \* what the last finished operation returned
    args,           \* inputs of the pure functions under test
    out             \* their outputs

vars == <<goals, workouts, exercises, measurements, now, pc, run, result, args, out>>

activity == <<workouts, exercises, measurements>>

-----------------------------------------------------------------------------
(* Bounds *)

MaxValue == 3
MaxTime == 2
MaxGoals == 2
MaxWorkouts == 1
MaxExercises == 1
MaxCrudGoals == 1
MaxStoreWorkouts == 2
MaxStoreExercises == 2
MaxMeasurements == 2
MaxActivityMeasurements == 1

\* Python's None, as a number no modelled value equals
None == 0 - 1

\* "the call raised an exception", as the outcome of a call that returns a number
Raised == 0 - 2

\* one decimal place: the integer n is the value n / Scale
Scale == 10

\* an unset value kept as it is
KeepUnset(x) == x

\* `x or 0`
OrZero(x) == IF x = None THEN 0 ELSE x

Values == 0..MaxValue
Times == 0..MaxTime

-----------------------------------------------------------------------------
(* Date strings.  A target_date is None, or a string: the empty string, a  *)
(* string datetime.fromisoformat rejects, or an ISO string naming the      *)
(* instant `at`.                                                           *)

NoDate == [kind |-> "none", at |-> 0]
EmptyDate == [kind |-> "empty", at |-> 0]
BadDate == [kind |-> "malformed", at |-> 0]
IsoDate(t) == [kind |-> "iso", at |-> t]

DateStrings == {NoDate, EmptyDate, BadDate} \cup {IsoDate(t) : t \in Times}

\* `if target_date:` -- None and "" are falsy
Truthy(d) == d.kind \notin {"none", "empty"}

\* datetime.fromisoformat raises ValueError on a malformed string
ParsesAsIso(d) == d.kind = "iso"

-----------------------------------------------------------------------------
(* Text.  A string is a sequence of one-character strings, so that the     *)
(* regular expressions and ILIKE of the source are computed, not assumed.  *)

Digits == {"0", "1", "2", "3", "4", "5", "6", "7", "8", "9"}

UpperCase == <<"A", "B", "C", "D", "E", "F", "G", "H", "I", "J", "K", "L", "M",
               "N", "O", "P", "Q", "R", "S", "T", "U", "V", "W", "X", "Y", "Z">>

LowerCase == <<"a", "b", "c", "d", "e", "f", "g", "h", "i", "j", "k", "l", "m",
               "n", "o", "p", "q", "r", "s", "t", "u", "v", "w", "x", "y", "z">>

\* str.lower() on the upper-case letters
LowerOf ==
    [c \in {UpperCase[i] : i \in 1..Len(UpperCase)} |->
        LowerCase[CHOOSE i \in 1..Len(UpperCase) : UpperCase[i] = c]]

\* str.lower() on one character
LowerChar(c) == IF c \in DOMAIN LowerOf THEN LowerOf[c] ELSE c

\* str.lower()
Lower(s) == [i \in 1..Len(s) |-> LowerChar(s[i])]

\* \w of the re module, on the characters the model uses
IsWordChar(c) ==
    \/ c \in Digits
    \/ c = "_"
    \/ c \in DOMAIN LowerOf
    \/ c \in {LowerCase[i] : i \in 1..Len(LowerCase)}

IsSpace(c) == c = " "

\* whether `needle` occurs in `hay` starting at position i
MatchesAt(hay, needle, i) ==
    /\ i + Len(needle) - 1 <= Len(hay)
    /\ \A k \in 1..Len(needle) : hay[i + k - 1] = needle[k]

\* substring test
Contains(hay, needle) ==
    \E i \in 1..(Len(hay) + 1) : MatchesAt(hay, needle, i)

\* .ilike("name", f"%{pattern}%"): case-insensitive substring
ILike(name, pattern) == Contains(Lower(name), Lower(pattern))

\* first position >= i that holds no digit
RECURSIVE SkipDigits(_, _)
SkipDigits(s, i) ==
    IF i <= Len(s) /\ s[i] \in Digits THEN SkipDigits(s, i + 1) ELSE i

\* re.sub(r"\d+(\.\d+)?", "", s) from position i on
RECURSIVE RemoveNumbersFrom(_, _)
RemoveNumbersFrom(s, i) ==
    IF i > Len(s) THEN <<>>
    ELSE IF s[i] \in Digits
    THEN LET j == SkipDigits(s, i)
             k == IF j + 1 <= Len(s) /\ s[j] = "." /\ s[j + 1] \in Digits
                  THEN SkipDigits(s, j + 1)
                  ELSE j
         IN  RemoveNumbersFrom(s, k)
    ELSE <<s[i]>> \o RemoveNumbersFrom(s, i + 1)

RemoveNumbers(s) == RemoveNumbersFrom(s, 1)

\* the alternation (kg|lbs|km|miles|reps|minutes|days|workouts)
UnitWords == <<
    <<"k", "g">>, <<"l", "b", "s">>, <<"k", "m">>,
    <<"m", "i", "l", "e", "s">>, <<"r", "e", "p", "s">>,
    <<"m", "i", "n", "u", "t", "e", "s">>, <<"d", "a", "y", "s">>,
    <<"w", "o", "r", "k", "o", "u", "t", "s">> >>

\* \b(word)\b matches at position i, case-insensitively
UnitWordAt(s, i, w) ==
    /\ MatchesAt(Lower(s), w, i)
    /\ (i = 1 \/ ~IsWordChar(s[i - 1]))
    /\ (i + Len(w) > Len(s) \/ ~IsWordChar(s[i + Len(w)]))

\* re.sub(r"\b(kg|...|workouts)\b", "", s, flags=re.IGNORECASE) from i on
RECURSIVE RemoveUnitWordsFrom(_, _)
RemoveUnitWordsFrom(s, i) ==
    IF i > Len(s) THEN <<>>
    ELSE IF \E n \in 1..Len(UnitWords) : UnitWordAt(s, i, UnitWords[n])
    THEN LET n == CHOOSE n \in 1..Len(UnitWords) : UnitWordAt(s, i, UnitWords[n])
         IN  RemoveUnitWordsFrom(s, i + Len(UnitWords[n]))
    ELSE <<s[i]>> \o RemoveUnitWordsFrom(s, i + 1)

RemoveUnitWords(s) == RemoveUnitWordsFrom(s, 1)

\* str.strip()
RECURSIVE Strip(_)
Strip(s) ==
    IF s = <<>> THEN s
    ELSE IF IsSpace(s[1]) THEN Strip(Tail(s))
    ELSE IF IsSpace(s[Len(s)]) THEN Strip(SubSeq(s, 1, Len(s) - 1))
    ELSE s

\* _extract_exercise_name: the cleaned title, <<>> standing for None
\* (`return cleaned if cleaned else None`, and the callers test truthiness)
CleanTitle(title) == Strip(RemoveUnitWords(RemoveNumbers(title)))

\* re.search(r"weight|body|lose|gain", title, re.IGNORECASE)
HasBodyWeightWording(title) ==
    \/ Contains(Lower(title), <<"w", "e", "i", "g", "h", "t">>)
    \/ Contains(Lower(title), <<"b", "o", "d", "y">>)
    \/ Contains(Lower(title), <<"l", "o", "s", "e">>)
    \/ Contains(Lower(title), <<"g", "a", "i", "n">>)

(* The goal titles and exercise names the requests below use.  The text    *)
(* functions are tabulated on them once, and computed on any other string. *)

WorkoutsTitle == <<"W", "o", "r", "k", "o", "u", "t", "s">>
BenchTitle == <<"B", "e", "n", "c", "h", " ", "p", "r", "e", "s", "s", " ", "2", "k", "g">>
GizmosTitle == <<"G", "i", "z", "m", "o", "s">>
RunTitle == <<"R", "u", "n", " ", "5", "k", "m">>
FarTitle == <<"5", " ", "k", "m">>
BenchPress == <<"B", "e", "n", "c", "h", " ", "P", "r", "e", "s", "s">>
MorningRun == <<"M", "o", "r", "n", "i", "n", "g", " ", "R", "u", "n">>
WeightedTitle == <<"W", "e", "i", "g", "h", "t", "e", "d", " ", "d", "i", "p", "s">>
LoseTitle == <<"L", "o", "s", "e", " ", "5", "k", "g">>
WeightedDips == <<"W", "e", "i", "g", "h", "t", "e", "d", " ", "D", "i", "p", "s">>

KnownTitles == {WorkoutsTitle, BenchTitle, GizmosTitle, RunTitle, FarTitle,
                WeightedTitle, LoseTitle}
KnownNames == {BenchPress, MorningRun, WeightedDips}

CleanTitleTable == [t \in KnownTitles |-> CleanTitle(t)]
BodyWeightTable == [t \in KnownTitles |-> HasBodyWeightWording(t)]
ILikeTable ==
    [n \in KnownNames |-> [t \in KnownTitles |-> ILike(n, CleanTitleTable[t])]]

\* _extract_exercise_name: the cleaned title, <<>> standing for None
\* (`return cleaned if cleaned else None`, and the callers test truthiness)
ExtractExerciseName(title) ==
    IF title \in KnownTitles THEN CleanTitleTable[title] ELSE CleanTitle(title)

\* _is_body_weight_goal
IsBodyWeightGoal(title) ==
    IF title \in KnownTitles THEN BodyWeightTable[title]
    ELSE HasBodyWeightWording(title)

\* .ilike("name", f"%{exercise_name}%") with the name extracted from title
NameMatchesTitle(name, title) ==
    IF name \in KnownNames /\ title \in KnownTitles THEN ILikeTable[name][title]
    ELSE ILike(name, ExtractExerciseName(title))

-----------------------------------------------------------------------------
(* UnitConverter *)

kg == <<"k", "g">>
lbs == <<"l", "b", "s">>
km == <<"k", "m">>
miles == <<"m", "i", "l", "e", "s">>

\* the quotient cut off after the first decimal rather than rounded
FloorDiv(n, d) == n \div d

\* round(n / d, 1) on the fixed-point value: nearest, ties to even
RoundDiv(n, d) ==
    LET q == n \div d
        r == n % d
    IN  IF 2 * r > d THEN q + 1
        ELSE IF 2 * r < d THEN q
        ELSE IF q % 2 = 0 THEN q ELSE q + 1

\* a conversion that compares the unit strings as they are spelled
ConvertWeightExact(value, from_unit, to_unit) ==
    IF from_unit = to_unit THEN value
    ELSE IF from_unit = kg /\ to_unit = lbs THEN RoundDiv(value * 220462, 100000)
    ELSE IF from_unit = lbs /\ to_unit = kg THEN RoundDiv(value * 453592, 1000000)
    ELSE Raised

\* KG_TO_LBS = 2.20462, LBS_TO_KG = 0.453592
convert_weight(value, from_unit, to_unit) ==
    LET from == Lower(from_unit)
        to == Lower(to_unit)
    IN  IF from = to THEN value
        ELSE IF from = kg /\ to = lbs THEN RoundDiv(value * 220462, 100000)
        ELSE IF from = lbs /\ to = kg THEN RoundDiv(value * 453592, 1000000)
        ELSE Raised

\* KM_TO_MILES = 0.621371, MILES_TO_KM = 1.60934
convert_distance(value, from_unit, to_unit) ==
    LET from == Lower(from_unit)
        to == Lower(to_unit)
    IN  IF from = to THEN value
        ELSE IF from = km /\ to = miles THEN RoundDiv(value * 621371, 1000000)
        ELSE IF from = miles /\ to = km THEN RoundDiv(value * 160934, 100000)
        ELSE Raised

\* normalize_weight(value, unit, target_unit="kg")
normalize_weight(value, unit, target_unit) == convert_weight(value, unit, target_unit)

\* normalize_distance(value, unit, target_unit="km")
normalize_distance(value, unit, target_unit) ==
    convert_distance(value, unit, target_unit)

-----------------------------------------------------------------------------
(* Sync strategies.  W, E, M are the tables workouts, exercises and        *)
(* body_measurements; a row's id is its index.  A strategy yields the set  *)
(* of outcomes the store can make it return: a value, None or Raised.      *)

RECURSIVE SumOf(_, _)
SumOf(f, S) ==
    IF S = {} THEN 0
    ELSE LET x == CHOOSE x \in S : TRUE IN f[x] + SumOf(f, S \ {x})

\* the smallest rather than the largest value
RECURSIVE MinOf(_, _)
MinOf(f, S) ==
    IF S = {} THEN 0
    ELSE LET x == CHOOSE x \in S : TRUE
         IN  IF S = {x} \/ f[x] < MinOf(f, S \ {x}) THEN f[x] ELSE MinOf(f, S \ {x})

\* max_weight = max(max_weight, weight), starting from 0
RECURSIVE MaxOf(_, _)
MaxOf(f, S) ==
    IF S = {} THEN 0
    ELSE LET x == CHOOSE x \in S : TRUE
             m == MaxOf(f, S \ {x})
         IN  IF f[x] > m THEN f[x] ELSE m

\* .eq("user_id", ctx.user_id).is_("deleted_at", "null") on workouts
UserWorkouts(user_id, W) ==
    {w \in DOMAIN W : W[w].user_id = user_id /\ W[w].deleted_at = None}

\* a count that forgets .is_("deleted_at", "null")
WorkoutCountWithDeleted(user_id, W) ==
    {Scale * Cardinality({w \in DOMAIN W : W[w].user_id = user_id})}

\* a sum that fails on a workout without duration_minutes
DurationStrategyStrict(user_id, W) ==
    LET minutes == [w \in DOMAIN W |-> OrZero(W[w].duration_minutes)]
    IN  IF \E w \in UserWorkouts(user_id, W) : W[w].duration_minutes = None
        THEN {Raised}
        ELSE {Scale * SumOf(minutes, UserWorkouts(user_id, W))}

\* a count of the dated workouts rather than of their dates
UniqueDaysCountsWorkouts(user_id, W) ==
    {Scale * Cardinality({v \in UserWorkouts(user_id, W) : W[v].date # None})}

\* WorkoutCountStrategy.calculate
WorkoutCountStrategy(user_id, W) ==
    {Scale * Cardinality(UserWorkouts(user_id, W))}

\* DurationStrategy.calculate
DurationStrategy(user_id, W) ==
    LET minutes == [w \in DOMAIN W |-> OrZero(W[w].duration_minutes)]
    IN  {Scale * SumOf(minutes, UserWorkouts(user_id, W))}

\* UniqueDaysStrategy.calculate; a date of None stands for a falsy date
UniqueDaysStrategy(user_id, W) ==
    {Scale * Cardinality({W[w].date : w \in {v \in UserWorkouts(user_id, W) :
                                                 W[v].date # None}})}

\* the second query of the exercise strategies, without its owner filter
ValidWorkoutIdsAnyOwner(user_id, workout_ids, W) ==
    {w \in DOMAIN W : w \in workout_ids /\ W[w].deleted_at = None}

\* .eq("user_id", ctx.user_id).in_("id", workout_ids).is_("deleted_at", "null")
ValidWorkoutIds(user_id, workout_ids, W) ==
    {w \in DOMAIN W : /\ W[w].user_id = user_id
                      /\ w \in workout_ids
                      /\ W[w].deleted_at = None}

\* `weight_unit = x.get("weight_unit", "kg") or "kg"`
UnitOr(unit, default) == IF unit = <<>> THEN default ELSE unit

\* a body weight taken from the earliest rather than the latest measurement
GetBodyWeightOldest(target_unit, user_id, M) ==
    LET data == {m \in DOMAIN M : /\ M[m].user_id = user_id
                                  /\ M[m].weight # None
                                  /\ M[m].deleted_at = None}
        first == {m \in data : \A n \in data : M[n].measured_at >= M[m].measured_at}
        weigh(m) ==
            IF Lower(UnitOr(M[m].weight_unit, kg)) # target_unit
            THEN convert_weight(OrZero(M[m].weight), UnitOr(M[m].weight_unit, kg),
                                target_unit)
            ELSE OrZero(M[m].weight)
    IN  IF data = {} THEN {None} ELSE {weigh(m) : m \in first}

\* WeightStrategy._get_body_weight: the latest measurement is the first row
\* of ORDER BY measured_at DESC LIMIT 1; rows with equal measured_at may
\* come in either order
GetBodyWeight(target_unit, user_id, M) ==
    LET data == {m \in DOMAIN M : /\ M[m].user_id = user_id
                                  /\ M[m].weight # None
                                  /\ M[m].deleted_at = None}
        first == {m \in data : \A n \in data : M[n].measured_at <= M[m].measured_at}
        weigh(m) ==
            LET weight == OrZero(M[m].weight)
                weight_unit == UnitOr(M[m].weight_unit, kg)
            IN  IF Lower(weight_unit) # target_unit
                THEN convert_weight(weight, weight_unit, target_unit)
                ELSE weight
    IN  IF data = {} THEN {None} ELSE {weigh(m) : m \in first}

\* WeightStrategy._get_exercise_max_weight, for the exercise name of `title`
GetExerciseMaxWeight(target_unit, user_id, title, W, E) ==
    LET data == {e \in DOMAIN E : /\ NameMatchesTitle(E[e].name, title)
                                  /\ E[e].weight # None}
        workout_ids == {E[e].workout_id : e \in data}
        valid_workout_ids == ValidWorkoutIds(user_id, workout_ids, W)
        valid == {e \in data : E[e].workout_id \in valid_workout_ids}
        weight == [e \in DOMAIN E |->
            IF Lower(UnitOr(E[e].weight_unit, kg)) # target_unit
            THEN convert_weight(OrZero(E[e].weight), UnitOr(E[e].weight_unit, kg),
                                target_unit)
            ELSE OrZero(E[e].weight)]
        max_weight == MaxOf(weight, valid)
    IN  IF data = {} \/ workout_ids = {} \/ valid_workout_ids = {} THEN {None}
        ELSE IF \E e \in valid : weight[e] = Raised THEN {Raised}
        ELSE IF max_weight > 0 THEN {max_weight} ELSE {None}

\* WeightStrategy.calculate
WeightStrategy(target_unit, user_id, title, W, E, M) ==
    LET exercise_name == ExtractExerciseName(title)
    IN  IF exercise_name # <<>> /\ IsBodyWeightGoal(title)
        THEN GetBodyWeight(target_unit, user_id, M)
        ELSE IF exercise_name # <<>>
        THEN GetExerciseMaxWeight(target_unit, user_id, title, W, E)
        ELSE {None}

\* MaxRepsStrategy.calculate
MaxRepsStrategy(user_id, title, W, E) ==
    LET exercise_name == ExtractExerciseName(title)
        data == {e \in DOMAIN E : /\ NameMatchesTitle(E[e].name, title)
                                  /\ E[e].reps # None}
        workout_ids == {E[e].workout_id : e \in data}
        valid_workout_ids == ValidWorkoutIds(user_id, workout_ids, W)
        valid == {e \in data : E[e].workout_id \in valid_workout_ids}
        reps == [e \in DOMAIN E |-> Scale * OrZero(E[e].reps)]
        max_reps == MaxOf(reps, valid)
    IN  IF exercise_name = <<>> THEN {None}
        ELSE IF data = {} \/ workout_ids = {} \/ valid_workout_ids = {} THEN {None}
        ELSE IF max_reps > 0 THEN {max_reps} ELSE {None}

\* a distance total that adds the stored numbers without converting them
DistanceStrategyUnconverted(target_unit, user_id, title, W, E) ==
    LET exercise_name == ExtractExerciseName(title)
        data == {e \in DOMAIN E :
                    /\ E[e].distance # None
                    /\ exercise_name # <<>> => NameMatchesTitle(E[e].name, title)}
        workout_ids == {E[e].workout_id : e \in data}
        valid_workout_ids == ValidWorkoutIds(user_id, workout_ids, W)
        valid == {e \in data : E[e].workout_id \in valid_workout_ids}
        distance == [e \in DOMAIN E |-> OrZero(E[e].distance)]
        total_distance == SumOf(distance, valid)
    IN  IF data = {} \/ workout_ids = {} \/ valid_workout_ids = {} THEN {None}
        ELSE IF total_distance > 0 THEN {total_distance} ELSE {None}

\* DistanceStrategy.calculate
DistanceStrategy(target_unit, user_id, title, W, E) ==
    LET exercise_name == ExtractExerciseName(title)
        data == {e \in DOMAIN E :
                    /\ E[e].distance # None
                    /\ exercise_name # <<>> => NameMatchesTitle(E[e].name, title)}
        workout_ids == {E[e].workout_id : e \in data}
        valid_workout_ids == ValidWorkoutIds(user_id, workout_ids, W)
        valid == {e \in data : E[e].workout_id \in valid_workout_ids}
        distance == [e \in DOMAIN E |->
            IF Lower(UnitOr(E[e].distance_unit, km)) # target_unit
            THEN convert_distance(OrZero(E[e].distance),
                                  UnitOr(E[e].distance_unit, km), target_unit)
            ELSE OrZero(E[e].distance)]
        total_distance == SumOf(distance, valid)
    IN  IF data = {} \/ workout_ids = {} \/ valid_workout_ids = {} THEN {None}
        ELSE IF \E e \in valid : distance[e] = Raised THEN {Raised}
        ELSE IF total_distance > 0 THEN {total_distance} ELSE {None}

\* the keys of GoalSyncService.strategies
StrategyKeys ==
    {<<"w", "o", "r", "k", "o", "u", "t", "s">>,
     <<"m", "i", "n", "u", "t", "e", "s">>,
     <<"d", "a", "y", "s">>,
     kg, lbs, <<"r", "e", "p", "s">>, km, miles}

\* self.strategies.get(unit) is not None
HasStrategy(unit) == unit \in StrategyKeys

\* strategy.calculate(ctx) of the strategy registered for `unit`
Calculate(unit, user_id, title, W, E, M) ==
    IF unit = <<"w", "o", "r", "k", "o", "u", "t", "s">>
        THEN WorkoutCountStrategy(user_id, W)
    ELSE IF unit = <<"m", "i", "n", "u", "t", "e", "s">>
        THEN DurationStrategy(user_id, W)
    ELSE IF unit = <<"d", "a", "y", "s">>
        THEN UniqueDaysStrategy(user_id, W)
    ELSE IF unit \in {kg, lbs}
        THEN WeightStrategy(unit, user_id, title, W, E, M)
    ELSE IF unit = <<"r", "e", "p", "s">>
        THEN MaxRepsStrategy(user_id, title, W, E)
    ELSE DistanceStrategy(unit, user_id, title, W, E)

\* how many store queries that call executes
QueriesIssued(unit, user_id, title, W, E) ==
    LET exercise_name == ExtractExerciseName(title)
        matching == {e \in DOMAIN E :
                        exercise_name # <<>> => NameMatchesTitle(E[e].name, title)}
        data == IF unit \in {kg, lbs} THEN {e \in matching : E[e].weight # None}
                ELSE IF unit \in {km, miles} THEN {e \in matching : E[e].distance # None}
                ELSE {e \in matching : E[e].reps # None}
    IN  IF unit \in {<<"w", "o", "r", "k", "o", "u", "t", "s">>,
                     <<"m", "i", "n", "u", "t", "e", "s">>, <<"d", "a", "y", "s">>}
            THEN 1
        ELSE IF unit \notin {km, miles} /\ exercise_name = <<>> THEN 0
        ELSE IF unit \in {kg, lbs} /\ IsBodyWeightGoal(title) THEN 1
        ELSE IF data = {} THEN 1
        ELSE 2

-----------------------------------------------------------------------------
(* Achievement and status policy *)

is_goal_achieved_strict(initial_value, current_value, target_value) ==
    IF initial_value < target_value
    THEN current_value >= target_value
    ELSE current_value <= target_value

is_goal_achieved(initial_value, current_value, target_value) ==
    IF initial_value <= target_value
    THEN current_value >= target_value
    ELSE current_value <= target_value

calculate_goal_status_gt(initial_value, current_value, target_value, target_date, clock) ==
    IF initial_value <= target_value /\ current_value > target_value
    THEN "completed"
    ELSE IF initial_value > target_value /\ current_value <= target_value
    THEN "completed"
    ELSE IF Truthy(target_date) /\ ParsesAsIso(target_date) /\ clock > target_date.at
    THEN "behind"
    ELSE "active"

calculate_goal_status_overdue_first(initial_value, current_value, target_value, target_date, clock) ==
    IF Truthy(target_date) /\ ParsesAsIso(target_date) /\ clock >= target_date.at
    THEN "behind"
    ELSE IF initial_value <= target_value /\ current_value >= target_value
    THEN "completed"
    ELSE IF initial_value > target_value /\ current_value <= target_value
    THEN "completed"
    ELSE "active"

\* `clock` is the value datetime.now(target.tzinfo) returns during the call
calculate_goal_status(initial_value, current_value, target_value, target_date, clock) ==
    IF initial_value <= target_value /\ current_value >= target_value
    THEN "completed"
    ELSE IF initial_value > target_value /\ current_value <= target_value
    THEN "completed"
    ELSE IF Truthy(target_date) /\ ParsesAsIso(target_date) /\ clock > target_date.at
    THEN "behind"
    ELSE "active"

-----------------------------------------------------------------------------
(* Requests, results and the locals of a sync run *)

Users == {"u1", "u2"}

\* no sync run in progress
IdleRun == [user_id |-> "", caller |-> "", loaded |-> <<>>, idx |-> 0,
            updated_count |-> 0, details |-> <<>>, trace |-> <<>>]

\* what an operation handed back: `raised` when an exception left it; the
\* details list of a GoalSyncResult is run.details
Result(op, success, raised, updated, error) ==
    [op |-> op, success |-> success, raised |-> raised, updated |-> updated,
     error |-> error]

NoResult == Result("", FALSE, FALSE, 0, "")

\* datetime.now().replace(hour=0, minute=0, second=0, microsecond=0)
TicksPerDay == 2

Midnight(t) == t - (t % TicksPerDay)

-----------------------------------------------------------------------------
(* Specification of the pure policy functions: the inputs are drawn from   *)
(* bounded sets, the actions apply the functions.                          *)

\* `done` names the functions applied so far
NoOut == [done |-> {}, achieved |-> FALSE, status |-> "", unit |-> <<>>,
          user_id |-> "", title |-> <<>>, values |-> {}]

InitStatus ==
    /\ args \in [initial_value : Values, current_value : Values,
                 target_value : Values, target_date : DateStrings]
    /\ now \in Times
    /\ out = NoOut
    /\ goals = <<>>
    /\ workouts = <<>>
    /\ exercises = <<>>
    /\ measurements = <<>>
    /\ pc = "idle"
    /\ run = IdleRun
    /\ result = NoResult

ApplyIsGoalAchieved ==
    /\ "is_goal_achieved" \notin out.done
    /\ out' = [out EXCEPT !.done = @ \cup {"is_goal_achieved"},
                          !.achieved =
                  is_goal_achieved(args.initial_value, args.current_value,
                                   args.target_value)]
    /\ UNCHANGED <<goals, activity, now, pc, run, result, args>>

ApplyCalculateGoalStatus ==
    /\ "calculate_goal_status" \notin out.done
    /\ out' = [out EXCEPT !.done = @ \cup {"calculate_goal_status"},
                          !.status =
                  calculate_goal_status(args.initial_value, args.current_value,
                                        args.target_value, args.target_date, now)]
    /\ UNCHANGED <<goals, activity, now, pc, run, result, args>>

NextStatus == ApplyIsGoalAchieved \/ ApplyCalculateGoalStatus

SpecStatus == InitStatus /\ [][NextStatus]_vars

-----------------------------------------------------------------------------
(* Goals CRUD (GoalsCrudService) *)

\* rows of `goals` matching .eq("user_id", u).is_("deleted_at", "null")
LiveGoalsOf(user_id) ==
    SelectSeq(goals, LAMBDA g : g.user_id = user_id /\ g.deleted_at = None)

\* get_goal: .eq("id", goal_id).eq("user_id", user_id).is_("deleted_at", "null")
GoalVisible(user_id, goal_id) ==
    /\ goal_id \in DOMAIN goals
    /\ goals[goal_id].user_id = user_id
    /\ goals[goal_id].deleted_at = None

\* what an operation reports when get_goal matches no row: .single() hands
\* back no data (get_goal returns None and the caller ERROR_GOAL_NOT_FOUND),
\* or raises, and the caller's except reports the exception's text
GetGoalMisses == {"Goal not found", "no rows returned"}

\* _validate_target_date: TRUE when it returns ERROR_PAST_TARGET_DATE
TargetDateInPast(target_date) ==
    /\ Truthy(target_date)
    /\ ParsesAsIso(target_date)
    /\ target_date.at < Midnight(now)

\* create_goal; the insert fails when the store raises
CreateGoal(user_id, data, store_fails) ==
    /\ pc = "idle"
    /\ LET current_value == OrZero(data.current_value)
           status == calculate_goal_status(current_value, current_value,
                                           data.target_value, data.target_date, now)
           row == [id |-> Len(goals) + 1,
                   user_id |-> user_id,
                   title |-> data.title,
                   target_value |-> data.target_value,
                   current_value |-> current_value,
                   initial_value |-> current_value,
                   unit |-> data.unit,
                   target_date |-> data.target_date,
                   achieved |-> (status = "completed"),
                   status |-> status,
                   updated_at |-> now,
                   deleted_at |-> None]
       IN  IF Truthy(data.target_date) /\ ~ParsesAsIso(data.target_date)
           THEN /\ result' = Result("create_goal", FALSE, FALSE, 0, "ValueError")
                /\ goals' = goals
           ELSE IF TargetDateInPast(data.target_date)
           THEN /\ result' = Result("create_goal", FALSE, FALSE, 0,
                                    "Target date cannot be in the past")
                /\ goals' = goals
           ELSE IF store_fails
           THEN /\ result' = Result("create_goal", FALSE, FALSE, 0, "store error")
                /\ goals' = goals
           ELSE /\ result' = Result("create_goal", TRUE, FALSE, 0, "")
                /\ goals' = Append(goals, row)
    /\ pc' = "done"
    /\ UNCHANGED <<activity, now, run, args, out>>

\* an update that moves initial_value along with current_value
BuildUpdateDataMovesInitial(row, data) ==
    [row EXCEPT
        !.title = IF data.title # <<>> THEN data.title ELSE @,
        !.target_value = IF data.target_value # None THEN data.target_value ELSE @,
        !.current_value = IF data.current_value # None THEN data.current_value ELSE @,
        !.initial_value = IF data.current_value # None THEN data.current_value ELSE @,
        !.unit = IF data.unit # <<>> THEN data.unit ELSE @,
        !.target_date = IF data.target_date # NoDate THEN data.target_date ELSE @,
        !.updated_at = now]

\* _build_update_data: the fields of GoalUpdate that are not None overwrite
\* the row; initial_value is not among them
BuildUpdateData(row, data) ==
    [row EXCEPT
        !.title = IF data.title # <<>> THEN data.title ELSE @,
        !.target_value = IF data.target_value # None THEN data.target_value ELSE @,
        !.current_value = IF data.current_value # None THEN data.current_value ELSE @,
        !.unit = IF data.unit # <<>> THEN data.unit ELSE @,
        !.target_date = IF data.target_date # NoDate THEN data.target_date ELSE @,
        !.updated_at = now]

\* update_goal
UpdateGoal(user_id, goal_id, data, store_fails) ==
    /\ pc = "idle"
    /\ IF ~GoalVisible(user_id, goal_id)
       THEN /\ \E error \in GetGoalMisses :
                  result' = Result("update_goal", FALSE, FALSE, 0, error)
            /\ goals' = goals
       ELSE LET existing == goals[goal_id]
                target_date == IF data.target_date # NoDate THEN data.target_date
                               ELSE existing.target_date
                current == IF data.current_value # None THEN data.current_value
                           ELSE existing.current_value
                target_val == IF data.target_value # None THEN data.target_value
                              ELSE existing.target_value
                status == calculate_goal_status(existing.initial_value, current,
                                                target_val, target_date, now)
                update_data == [BuildUpdateData(existing, data) EXCEPT
                                   !.status = status,
                                   !.achieved = (status = "completed")]
            IN  IF TargetDateInPast(target_date)
                THEN /\ result' = Result("update_goal", FALSE, FALSE, 0,
                                         "Target date cannot be in the past")
                     /\ goals' = goals
                ELSE IF store_fails
                THEN /\ result' = Result("update_goal", FALSE, FALSE, 0,
                                         "store error")
                     /\ goals' = goals
                ELSE /\ result' = Result("update_goal", TRUE, FALSE, 0, "")
                     /\ goals' = [goals EXCEPT ![goal_id] = update_data]
    /\ pc' = "done"
    /\ UNCHANGED <<activity, now, run, args, out>>

\* update_goal_progress
UpdateGoalProgress(user_id, goal_id, current_value, store_fails) ==
    /\ pc = "idle"
    /\ IF ~GoalVisible(user_id, goal_id)
       THEN /\ \E error \in GetGoalMisses :
                  result' = Result("update_goal_progress", FALSE, FALSE, 0, error)
            /\ goals' = goals
       ELSE LET existing == goals[goal_id]
                status == calculate_goal_status(existing.initial_value, current_value,
                                                existing.target_value,
                                                existing.target_date, now)
            IN  IF store_fails
                THEN /\ result' = Result("update_goal_progress", FALSE, FALSE, 0,
                                         "store error")
                     /\ goals' = goals
                ELSE /\ result' = Result("update_goal_progress", TRUE, FALSE, 0, "")
                     /\ goals' = [goals EXCEPT ![goal_id] =
                                     [@ EXCEPT !.current_value = current_value,
                                               !.status = status,
                                               !.achieved = (status = "completed"),
                                               !.updated_at = now]]
    /\ pc' = "done"
    /\ UNCHANGED <<activity, now, run, args, out>>

\* delete_goal
DeleteGoal(user_id, goal_id, store_fails) ==
    /\ pc = "idle"
    /\ IF store_fails
       THEN /\ result' = Result("delete_goal", FALSE, FALSE, 0, "store error")
            /\ goals' = goals
       ELSE IF ~GoalVisible(user_id, goal_id)
       THEN /\ result' = Result("delete_goal", FALSE, FALSE, 0, "Goal not found")
            /\ goals' = goals
       ELSE /\ result' = Result("delete_goal", TRUE, FALSE, 0, "")
            /\ goals' = [goals EXCEPT ![goal_id] =
                            [@ EXCEPT !.deleted_at = now,
                                      !.status = "archived",
                                      !.updated_at = now]]
    /\ pc' = "done"
    /\ UNCHANGED <<activity, now, run, args, out>>

-----------------------------------------------------------------------------
(* GoalSyncService *)

\* an outcome that reports every update it issued, completed or not
OutcomeCountsIssued(dispatched, queries, new_value, update_issued, written, achieved) ==
    [dispatched |-> dispatched, queries |-> queries, new_value |-> new_value,
     update_issued |-> update_issued, written |-> written, achieved |-> achieved,
     returned |-> update_issued]

\* what _sync_single_goal did for one goal: whether a strategy was called,
\* how many store queries it executed, the value it computed, whether the
\* goal update was issued and whether it completed; `returned` is whether
\* the detail dict rather than None came back
Outcome(dispatched, queries, new_value, update_issued, written, achieved) ==
    [dispatched |-> dispatched, queries |-> queries, new_value |-> new_value,
     update_issued |-> update_issued, written |-> written, achieved |-> achieved,
     returned |-> written]

\* _sync_single_goal with the no-change test left out
SyncSingleGoalAlwaysWrites(user_id, goal, W, E, M, store_fails) ==
    LET unit == Lower(goal.unit)
        queries == QueriesIssued(unit, user_id, goal.title, W, E)
        values == IF store_fails = "read" /\ queries > 0 THEN {Raised}
                  ELSE Calculate(unit, user_id, goal.title, W, E, M)
        outcome(new_value) ==
            IF new_value = Raised
            THEN Outcome(TRUE, 1, Raised, FALSE, FALSE, FALSE)
            ELSE Outcome(TRUE, queries, new_value, TRUE, store_fails # "write",
                         is_goal_achieved(goal.initial_value, OrZero(new_value),
                                          goal.target_value))
    IN  IF ~HasStrategy(unit)
        THEN {Outcome(FALSE, 0, None, FALSE, FALSE, FALSE)}
        ELSE {outcome(v) : v \in values}

\* _sync_single_goal with the strategy lookup left out
SyncSingleGoalAnyUnit(user_id, goal, W, E, M, store_fails) ==
    LET unit == Lower(goal.unit)
        values == IF store_fails = "read" THEN {Raised}
                  ELSE Calculate(unit, user_id, goal.title, W, E, M)
        outcome(new_value) ==
            IF new_value = Raised
            THEN Outcome(TRUE, 1, Raised, FALSE, FALSE, FALSE)
            ELSE IF new_value = None \/ new_value = goal.current_value
            THEN Outcome(TRUE, 1, new_value, FALSE, FALSE, FALSE)
            ELSE Outcome(TRUE, 1, new_value, TRUE, store_fails # "write",
                         is_goal_achieved(goal.initial_value, new_value,
                                          goal.target_value))
    IN  {outcome(v) : v \in values}

\* _sync_single_goal(user_id, goal): the outcomes the store allows.
\* store_fails names the store call that raises: "none", "read" (a query of
\* the strategy) or "write" (the goal update).
SyncSingleGoal(user_id, goal, W, E, M, store_fails) ==
    LET unit == Lower(goal.unit)
        queries == QueriesIssued(unit, user_id, goal.title, W, E)
        values == IF store_fails = "read" /\ queries > 0 THEN {Raised}
                  ELSE Calculate(unit, user_id, goal.title, W, E, M)
        outcome(new_value) ==
            IF new_value = Raised
            THEN Outcome(TRUE, 1, Raised, FALSE, FALSE, FALSE)
            ELSE IF new_value = None \/ new_value = goal.current_value
            THEN Outcome(TRUE, queries, new_value, FALSE, FALSE, FALSE)
            ELSE Outcome(TRUE, queries, new_value, TRUE, store_fails # "write",
                         is_goal_achieved(goal.initial_value, new_value,
                                          goal.target_value))
    IN  IF ~HasStrategy(unit)
        THEN {Outcome(FALSE, 0, None, FALSE, FALSE, FALSE)}
        ELSE {outcome(v) : v \in values}

\* an update that writes the value and leaves `achieved` as it is stored
SyncUpdateValueOnly(row, o) ==
    [row EXCEPT !.current_value = o.new_value,
                !.updated_at = now]

\* .update({current_value, achieved, updated_at}).eq("id", goal.id)
SyncUpdate(row, o) ==
    [row EXCEPT !.current_value = o.new_value,
                !.achieved = o.achieved,
                !.updated_at = now]

\* a sync whose update never reaches the store
GoalsUntouched(goal, o) == goals

\* the goals table after _sync_single_goal's outcome o for goal
GoalsAfterSync(goal, o) ==
    IF o.written THEN [goals EXCEPT ![goal.id] = SyncUpdate(@, o)] ELSE goals

\* the detail record _sync_single_goal returns
Detail(goal, o) ==
    [goal_id |-> goal.id, old_value |-> goal.current_value,
     new_value |-> o.new_value, achieved |-> o.achieved]

\* what the run did for one goal (run.loaded holds the goal as loaded), with
\* the stored row before and after
TraceEntry(goal, o, before, after) ==
    [goal_id |-> goal.id, outcome |-> o, before |-> before, after |-> after]

\* what the caller of sync_user_goals returns once the sync is over
ReturnTo(caller, sync_result) ==
    IF caller = "sync_user_goals" THEN sync_result
    ELSE Result(caller, TRUE, FALSE, 0, "")

\* what the caller returns when sync_user_goals raises: the activity
\* operations catch every exception and report it
RaiseTo(caller) ==
    IF caller = "sync_user_goals"
    THEN Result("sync_user_goals", FALSE, TRUE, 0, "store error")
    ELSE Result(caller, FALSE, FALSE, 0, "store error")

\* sync_user_goals up to the loop: the goal query, unguarded, and the
\* early return
BeginSync(user_id, caller, load_fails) ==
    LET data == LiveGoalsOf(user_id)
    IN  IF load_fails
        THEN /\ pc' = "done"
             /\ run' = IdleRun
             /\ result' = RaiseTo(caller)
        ELSE IF data = <<>>
        THEN /\ pc' = "done"
             /\ run' = IdleRun
             /\ result' = ReturnTo(caller, Result("sync_user_goals", TRUE, FALSE, 0,
                                                  "No goals found"))
        ELSE /\ pc' = "sync"
             /\ run' = [IdleRun EXCEPT !.user_id = user_id, !.caller = caller,
                                       !.loaded = data, !.idx = 1]
             /\ result' = result

\* a direct call of sync_user_goals (the POST /goals/sync route)
SyncUserGoals(user_id, load_fails) ==
    /\ pc = "idle"
    /\ BeginSync(user_id, "sync_user_goals", load_fails)
    /\ UNCHANGED <<goals, activity, now, args, out>>

\* a loop that stops at the first goal whose computation or update fails
SyncStepAbortsOnFailure(store_fails) ==
    /\ pc = "sync"
    /\ run.idx <= Len(run.loaded)
    /\ LET goal == run.loaded[run.idx]
       IN  \E o \in SyncSingleGoal(run.user_id, goal, workouts, exercises,
                                   measurements, store_fails) :
              /\ goals' = GoalsAfterSync(goal, o)
              /\ run' = [run EXCEPT
                    !.idx = IF o.new_value = Raised \/ (o.update_issued /\ ~o.written)
                            THEN Len(run.loaded) + 1 ELSE @ + 1,
                    !.updated_count = IF o.returned THEN @ + 1 ELSE @,
                    !.details = IF o.returned THEN Append(@, Detail(goal, o)) ELSE @,
                    !.trace = Append(@, TraceEntry(goal, o, goals[goal.id],
                                                   goals'[goal.id]))]
    /\ UNCHANGED <<activity, now, pc, result, args, out>>

\* one iteration of the loop of sync_user_goals
SyncStep(store_fails) ==
    /\ pc = "sync"
    /\ run.idx <= Len(run.loaded)
    /\ LET goal == run.loaded[run.idx]
       IN  \E o \in SyncSingleGoal(run.user_id, goal, workouts, exercises,
                                   measurements, store_fails) :
              /\ goals' = GoalsAfterSync(goal, o)
              /\ run' = [run EXCEPT
                    !.idx = @ + 1,
                    !.updated_count = IF o.returned THEN @ + 1 ELSE @,
                    !.details = IF o.returned THEN Append(@, Detail(goal, o)) ELSE @,
                    !.trace = Append(@, TraceEntry(goal, o, goals[goal.id],
                                                   goals'[goal.id]))]
    /\ UNCHANGED <<activity, now, pc, result, args, out>>

\* the return of sync_user_goals, and of the operation that called it
SyncFinish ==
    /\ pc = "sync"
    /\ run.idx > Len(run.loaded)
    /\ pc' = "done"
    /\ result' = ReturnTo(run.caller,
                          Result("sync_user_goals", TRUE, FALSE, run.updated_count, ""))
    /\ UNCHANGED <<goals, activity, now, run, args, out>>

\* POST /goals/{goal_id}/sync: loads the goal and calls _sync_single_goal
SyncSingleGoalRoute(user_id, goal_id, store_fails) ==
    /\ pc = "idle"
    /\ IF ~GoalVisible(user_id, goal_id)
       THEN /\ result' = Result("sync_single_goal", FALSE, TRUE, 0,
                                "Goal not found")
            /\ goals' = goals
            /\ run' = IdleRun
       ELSE LET goal == goals[goal_id]
            IN  \E o \in SyncSingleGoal(user_id, goal, workouts, exercises,
                                        measurements, store_fails) :
                   /\ goals' = GoalsAfterSync(goal, o)
                   /\ result' = Result("sync_single_goal", TRUE, FALSE,
                                       IF o.returned THEN 1 ELSE 0, "")
                   /\ run' = [IdleRun EXCEPT
                         !.user_id = user_id,
                         !.caller = "sync_single_goal",
                         !.loaded = <<goal>>,
                         !.idx = 2,
                         !.updated_count = IF o.returned THEN 1 ELSE 0,
                         !.details = IF o.returned THEN <<Detail(goal, o)>> ELSE <<>>,
                         !.trace = <<TraceEntry(goal, o, goals[goal_id],
                                                goals'[goal_id])>>]
    /\ pc' = "done"
    /\ UNCHANGED <<activity, now, args, out>>

\* GoalSyncService._sync_single_goal(user_id, goal) called with any stored,
\* not deleted goal row as `goal`: the method itself does not compare
\* goal.user_id with user_id
SyncSingleGoalCall(user_id, goal_id, store_fails) ==
    /\ pc = "idle"
    /\ goal_id \in DOMAIN goals
    /\ goals[goal_id].deleted_at = None
    /\ LET goal == goals[goal_id]
       IN  \E o \in SyncSingleGoal(user_id, goal, workouts, exercises,
                                   measurements, store_fails) :
              /\ goals' = GoalsAfterSync(goal, o)
              /\ result' = Result("_sync_single_goal", TRUE, FALSE,
                                  IF o.returned THEN 1 ELSE 0, "")
              /\ run' = [IdleRun EXCEPT
                    !.user_id = user_id,
                    !.caller = "_sync_single_goal",
                    !.loaded = <<goal>>,
                    !.idx = 2,
                    !.updated_count = IF o.returned THEN 1 ELSE 0,
                    !.details = IF o.returned THEN <<Detail(goal, o)>> ELSE <<>>,
                    !.trace = <<TraceEntry(goal, o, goals[goal_id],
                                           goals'[goal_id])>>]
    /\ pc' = "done"
    /\ UNCHANGED <<activity, now, args, out>>

-----------------------------------------------------------------------------
(* WorkoutsService.  The update of workout_plan_sessions in create_workout *)
(* touches no table of this model.                                         *)

\* _build_exercise_record, as the row the insert stores
ExerciseRow(exercise, workout_id) ==
    [workout_id |-> workout_id,
     name |-> exercise.name,
     reps |-> exercise.reps,
     weight |-> exercise.weight,
     weight_unit |-> exercise.weight_unit,
     distance |-> exercise.distance,
     distance_unit |-> exercise.distance_unit,
     deleted_at |-> None]

ExerciseRows(list, workout_id) ==
    [i \in 1..Len(list) |-> ExerciseRow(list[i], workout_id)]

\* create_workout.  store_fails: "none", "insert" (the workout insert
\* raises) or "load" (the goal query of the trailing sync raises)
CreateWorkout(user_id, data, store_fails) ==
    /\ pc = "idle"
    /\ IF store_fails = "insert"
       THEN /\ result' = Result("create_workout", FALSE, FALSE, 0, "store error")
            /\ pc' = "done"
            /\ UNCHANGED <<workouts, exercises, run>>
       ELSE /\ workouts' = Append(workouts,
                                  [user_id |-> user_id,
                                   date |-> data.date,
                                   duration_minutes |-> data.duration_minutes,
                                   deleted_at |-> None])
            /\ exercises' = exercises \o ExerciseRows(data.exercises, Len(workouts) + 1)
            /\ BeginSync(user_id, "create_workout", store_fails = "load")
    /\ UNCHANGED <<goals, measurements, now, args, out>>

\* update_workout: .eq("id", workout_id).eq("user_id", user_id), then the
\* exercises are soft-deleted and re-inserted when data.exercises is given
UpdateWorkout(user_id, workout_id, data, store_fails) ==
    /\ pc = "idle"
    /\ IF store_fails = "update"
       THEN /\ result' = Result("update_workout", FALSE, FALSE, 0, "store error")
            /\ pc' = "done"
            /\ UNCHANGED <<workouts, exercises, run>>
       ELSE IF ~(workout_id \in DOMAIN workouts /\ workouts[workout_id].user_id = user_id)
       THEN /\ result' = Result("update_workout", FALSE, FALSE, 0,
                                "Workout not found")
            /\ pc' = "done"
            /\ UNCHANGED <<workouts, exercises, run>>
       ELSE /\ workouts' = [workouts EXCEPT ![workout_id] =
                 [@ EXCEPT !.date = IF data.date # None THEN data.date ELSE @,
                           !.duration_minutes =
                               IF data.duration_minutes # None
                               THEN data.duration_minutes ELSE @]]
            /\ exercises' =
                 IF data.replace_exercises
                 THEN [e \in DOMAIN exercises |->
                          IF exercises[e].workout_id = workout_id
                             /\ exercises[e].deleted_at = None
                          THEN [exercises[e] EXCEPT !.deleted_at = now]
                          ELSE exercises[e]]
                      \o ExerciseRows(data.exercises, workout_id)
                 ELSE exercises
            /\ BeginSync(user_id, "update_workout", store_fails = "load")
    /\ UNCHANGED <<goals, measurements, now, args, out>>

\* delete_workout
DeleteWorkout(user_id, workout_id, store_fails) ==
    /\ pc = "idle"
    /\ IF store_fails = "update"
       THEN /\ result' = Result("delete_workout", FALSE, FALSE, 0, "store error")
            /\ pc' = "done"
            /\ UNCHANGED <<workouts, run>>
       ELSE IF ~(/\ workout_id \in DOMAIN workouts
                 /\ workouts[workout_id].user_id = user_id
                 /\ workouts[workout_id].deleted_at = None)
       THEN /\ result' = Result("delete_workout", FALSE, FALSE, 0,
                                "Workout not found")
            /\ pc' = "done"
            /\ UNCHANGED <<workouts, run>>
       ELSE /\ workouts' = [workouts EXCEPT ![workout_id] =
                               [@ EXCEPT !.deleted_at = now]]
            /\ BeginSync(user_id, "delete_workout", store_fails = "load")
    /\ UNCHANGED <<goals, exercises, measurements, now, args, out>>

\* MeasurementsService.create_measurement.  The insert writes no
\* weight_unit, so the row's weight_unit is null (<<>>).  store_fails:
\* "none", "insert" or "load" (the goal query of the trailing sync raises)
CreateMeasurement(user_id, data, store_fails) ==
    /\ pc = "idle"
    /\ IF store_fails = "insert"
       THEN /\ result' = Result("create_measurement", FALSE, FALSE, 0, "store error")
            /\ pc' = "done"
            /\ UNCHANGED <<measurements, run>>
       ELSE /\ measurements' = Append(measurements,
                   [user_id |-> user_id,
                    measured_at |-> IF data.measured_at # None THEN data.measured_at
                                    ELSE now,
                    weight |-> data.weight,
                    weight_unit |-> <<>>,
                    deleted_at |-> None])
            /\ BeginSync(user_id, "create_measurement", store_fails = "load")
    /\ UNCHANGED <<goals, workouts, exercises, now, args, out>>

\* MeasurementsService.update_measurement: .eq("id").eq("user_id"), the
\* fields that are not None; no sync follows
UpdateMeasurement(user_id, measurement_id, data, store_fails) ==
    /\ pc = "idle"
    /\ IF store_fails
       THEN /\ result' = Result("update_measurement", FALSE, FALSE, 0, "store error")
            /\ measurements' = measurements
       ELSE IF ~(/\ measurement_id \in DOMAIN measurements
                 /\ measurements[measurement_id].user_id = user_id)
       THEN /\ result' = Result("update_measurement", FALSE, FALSE, 0,
                                "Measurement not found")
            /\ measurements' = measurements
       ELSE /\ result' = Result("update_measurement", TRUE, FALSE, 0, "")
            /\ measurements' = [measurements EXCEPT ![measurement_id] =
                  [@ EXCEPT !.measured_at = IF data.measured_at # None
                                            THEN data.measured_at ELSE @,
                            !.weight = IF data.weight # None THEN data.weight ELSE @]]
    /\ pc' = "done"
    /\ UNCHANGED <<goals, workouts, exercises, now, run, args, out>>

\* MeasurementsService.delete_measurement; no sync follows
DeleteMeasurement(user_id, measurement_id, store_fails) ==
    /\ pc = "idle"
    /\ IF store_fails
       THEN /\ result' = Result("delete_measurement", FALSE, FALSE, 0, "store error")
            /\ measurements' = measurements
       ELSE IF ~(/\ measurement_id \in DOMAIN measurements
                 /\ measurements[measurement_id].user_id = user_id
                 /\ measurements[measurement_id].deleted_at = None)
       THEN /\ result' = Result("delete_measurement", FALSE, FALSE, 0,
                                "Measurement not found")
            /\ measurements' = measurements
       ELSE /\ result' = Result("delete_measurement", TRUE, FALSE, 0, "")
            /\ measurements' = [measurements EXCEPT ![measurement_id] =
                                   [@ EXCEPT !.deleted_at = now]]
    /\ pc' = "done"
    /\ UNCHANGED <<goals, workouts, exercises, now, run, args, out>>

\* the response leaves; the next request is served
Return ==
    /\ pc = "done"
    /\ pc' = "idle"
    /\ run' = IdleRun
    /\ result' = NoResult
    /\ out' = NoOut
    /\ UNCHANGED <<goals, activity, now, args>>

\* time passes between requests
Tick ==
    /\ pc = "idle"
    /\ now < MaxTime
    /\ now' = now + 1
    /\ UNCHANGED <<goals, activity, pc, run, result, args, out>>

-----------------------------------------------------------------------------
(* The requests the specification draws from *)

\* ExerciseCreate: a strength exercise
Strength(name, reps, weight, weight_unit) ==
    [name |-> name, reps |-> reps, weight |-> weight, weight_unit |-> weight_unit,
     distance |-> None, distance_unit |-> km]

\* ExerciseCreate: a cardio exercise
Cardio(name, distance, distance_unit) ==
    [name |-> name, reps |-> None, weight |-> None, weight_unit |-> kg,
     distance |-> distance, distance_unit |-> distance_unit]

\* WorkoutCreate
WorkoutInputs ==
    {[date |-> 1, duration_minutes |-> 30,
      exercises |-> <<Strength(BenchPress, 5, 2 * Scale, kg)>>]}

\* GoalCreate
NewGoal(title, unit, current_value, target_value, target_date) ==
    [title |-> title, unit |-> unit, target_value |-> target_value,
     current_value |-> current_value, target_date |-> target_date]

\* an increasing and a decreasing count goal, an exercise goal whose unit is
\* spelled in upper case, and a goal whose unit has no strategy
GoalInputs ==
    {NewGoal(WorkoutsTitle, <<"w", "o", "r", "k", "o", "u", "t", "s">>, None, Scale, NoDate),
     NewGoal(WorkoutsTitle, <<"w", "o", "r", "k", "o", "u", "t", "s">>, 2 * Scale, Scale,
             NoDate),
     NewGoal(BenchTitle, <<"K", "G">>, None, 2 * Scale, NoDate),
     NewGoal(GizmosTitle, <<"w", "i", "d", "g", "e", "t", "s">>, None, Scale, NoDate)}

GoalIds == 1..MaxGoals
WorkoutIds == 1..MaxWorkouts

-----------------------------------------------------------------------------
(* The sync engine: requests are served one at a time, any store call of   *)
(* a sync run may fail.                                                    *)

Init ==
    /\ goals = <<>>
    /\ workouts = <<>>
    /\ exercises = <<>>
    /\ measurements = <<>>
    /\ now = 0
    /\ pc = "idle"
    /\ run = IdleRun
    /\ result = NoResult
    /\ args = [initial_value |-> 0, current_value |-> 0, target_value |-> 0,
               target_date |-> NoDate]
    /\ out = NoOut

Next ==
    \/ Return
    \/ \E u \in Users, d \in GoalInputs : Len(goals) < MaxGoals /\ CreateGoal(u, d, FALSE)
    \/ \E u \in Users, g \in GoalIds : UpdateGoalProgress(u, g, Scale, FALSE)
    \/ \E u \in Users, d \in WorkoutInputs, f \in {"none", "load"} :
          /\ Len(workouts) < MaxWorkouts
          /\ Len(exercises) + Len(d.exercises) <= MaxExercises
          /\ CreateWorkout(u, d, f)
    \/ \E u \in Users, w \in WorkoutIds : DeleteWorkout(u, w, "none")
    \/ \E u \in Users, f \in BOOLEAN : SyncUserGoals(u, f)
    \/ \E f \in {"none", "read", "write"} : SyncStep(f)
    \/ SyncFinish
    \/ \E u \in Users, g \in GoalIds, f \in {"none", "read", "write"} :
          SyncSingleGoalRoute(u, g, f)

Spec == Init /\ [][Next]_vars

-----------------------------------------------------------------------------
(* The sync of one goal as a method: _sync_single_goal is given a user_id  *)
(* and a goal row by its caller.                                           *)

NextEngine ==
    \/ Return
    \/ \E u \in Users, d \in GoalInputs : Len(goals) < MaxGoals /\ CreateGoal(u, d, FALSE)
    \/ \E u \in Users, d \in WorkoutInputs :
          /\ Len(workouts) < MaxWorkouts
          /\ Len(exercises) + Len(d.exercises) <= MaxExercises
          /\ CreateWorkout(u, d, "none")
    \/ SyncStep("none")
    \/ SyncFinish
    \/ \E u \in Users, g \in GoalIds : SyncSingleGoalRoute(u, g, "none")
    \/ \E u \in Users, g \in GoalIds, f \in {"none", "write"} :
          SyncSingleGoalCall(u, g, f)

SpecEngine == Init /\ [][NextEngine]_vars

-----------------------------------------------------------------------------
(* The goal life cycle: one goal, the clock, every goals operation and the *)
(* syncs that follow the user's workouts.                                  *)

\* GoalCreate requests: an increasing goal without a date, a decreasing one
\* due at tick 1, one with an unparsable date and one with an empty date
CrudGoalInputs ==
    {NewGoal(WorkoutsTitle, <<"w", "o", "r", "k", "o", "u", "t", "s">>, None, Scale, NoDate),
     NewGoal(WorkoutsTitle, <<"w", "o", "r", "k", "o", "u", "t", "s">>, 2 * Scale, Scale,
             IsoDate(1)),
     NewGoal(GizmosTitle, <<"w", "i", "d", "g", "e", "t", "s">>, None, Scale, BadDate),
     NewGoal(GizmosTitle, <<"w", "i", "d", "g", "e", "t", "s">>, Scale, Scale, EmptyDate)}

\* GoalUpdate: a field left out is <<>>, None or NoDate
GoalUpdate(title, target_value, current_value, unit, target_date) ==
    [title |-> title, target_value |-> target_value, current_value |-> current_value,
     unit |-> unit, target_date |-> target_date]

GoalUpdates ==
    {GoalUpdate(<<>>, None, None, <<>>, NoDate),
     GoalUpdate(GizmosTitle, None, None, <<>>, NoDate),
     GoalUpdate(<<>>, 2 * Scale, None, <<>>, NoDate),
     GoalUpdate(<<>>, None, Scale, <<>>, NoDate),
     GoalUpdate(<<>>, None, None, <<"w", "o", "r", "k", "o", "u", "t", "s">>, NoDate),
     GoalUpdate(<<>>, None, None, <<>>, IsoDate(0))}

CrudGoalIds == 1..MaxCrudGoals

NextCrud ==
    \/ Return
    \/ Tick
    \/ \E u \in Users, d \in CrudGoalInputs, f \in BOOLEAN :
          Len(goals) < MaxCrudGoals /\ CreateGoal(u, d, f)
    \/ \E u \in Users, g \in CrudGoalIds, d \in GoalUpdates, f \in BOOLEAN :
          UpdateGoal(u, g, d, f)
    \/ \E u \in Users, g \in CrudGoalIds, v \in {0, 2 * Scale}, f \in BOOLEAN :
          UpdateGoalProgress(u, g, v, f)
    \/ \E u \in Users, g \in CrudGoalIds, f \in BOOLEAN : DeleteGoal(u, g, f)
    \/ \E u \in Users, d \in WorkoutInputs :
          /\ Len(workouts) < MaxWorkouts
          /\ Len(exercises) + Len(d.exercises) <= MaxExercises
          /\ CreateWorkout(u, d, "none")
    \/ \E u \in Users, w \in WorkoutIds : DeleteWorkout(u, w, "none")
    \/ \E u \in Users : SyncUserGoals(u, FALSE)
    \/ \E f \in {"none", "write"} : SyncStep(f)
    \/ SyncFinish
    \/ \E u \in Users, g \in CrudGoalIds : SyncSingleGoalRoute(u, g, "none")

SpecCrud == Init /\ [][NextCrud]_vars

-----------------------------------------------------------------------------
(* The activity store of two users, and a strategy computed over it.       *)

\* strategy.calculate(ctx) for a goal of user_id with this unit and title
CalculateRequest(unit, user_id, title) ==
    /\ pc = "idle"
    /\ out' = [NoOut EXCEPT !.done = {"calculate"},
                            !.unit = unit,
                            !.user_id = user_id,
                            !.title = title,
                            !.values = Calculate(unit, user_id, title, workouts,
                                                 exercises, measurements)]
    /\ result' = Result("calculate", TRUE, FALSE, 0, "")
    /\ pc' = "done"
    /\ UNCHANGED <<goals, activity, now, run, args>>

\* WorkoutCreate requests: strength sets in kg and in lbs on one day, a
\* run in km, a run in miles, and a workout with a falsy date and no
\* duration
StoreWorkoutInputs ==
    {[date |-> None, duration_minutes |-> None, exercises |-> <<>>],
     [date |-> 1, duration_minutes |-> 30,
      exercises |-> <<Strength(BenchPress, 5, 2 * Scale, kg)>>],
     [date |-> 1, duration_minutes |-> 30,
      exercises |-> <<Strength(BenchPress, 8, 9 * Scale, lbs)>>],
     [date |-> 2, duration_minutes |-> 45,
      exercises |-> <<Cardio(MorningRun, 5 * Scale, km)>>],
     [date |-> 2, duration_minutes |-> 45,
      exercises |-> <<Cardio(MorningRun, 3 * Scale, miles)>>]}

\* WorkoutUpdate requests: `exercises` given (an empty list removes them
\* all) or left None
StoreWorkoutUpdates ==
    {[date |-> 2, duration_minutes |-> None, replace_exercises |-> FALSE,
      exercises |-> <<>>],
     [date |-> None, duration_minutes |-> None, replace_exercises |-> TRUE,
      exercises |-> <<>>],
     [date |-> None, duration_minutes |-> None, replace_exercises |-> TRUE,
      exercises |-> <<Strength(BenchPress, 3, 3 * Scale, kg)>>]}

StoreWorkoutIds == 1..MaxStoreWorkouts

\* the units and titles of exercise goals
ExerciseGoals ==
    {<<kg, BenchTitle>>, <<lbs, BenchTitle>>, <<<<"r", "e", "p", "s">>, BenchTitle>>,
     <<km, RunTitle>>, <<miles, FarTitle>>}

\* the units and titles of the goals computed from workouts alone
WorkoutGoals ==
    {<<<<"w", "o", "r", "k", "o", "u", "t", "s">>, WorkoutsTitle>>,
     <<<<"m", "i", "n", "u", "t", "e", "s">>, WorkoutsTitle>>,
     <<<<"d", "a", "y", "s">>, WorkoutsTitle>>}

NextStrategy ==
    \/ Return
    \/ \E u \in Users, g \in WorkoutGoals : CalculateRequest(g[1], u, g[2])
    \/ \E u \in Users, d \in StoreWorkoutInputs :
          /\ Len(workouts) < MaxStoreWorkouts
          /\ Len(exercises) + Len(d.exercises) <= MaxStoreExercises
          /\ CreateWorkout(u, d, "none")
    \/ \E u \in Users, w \in StoreWorkoutIds, d \in StoreWorkoutUpdates :
          /\ Len(exercises) + Len(d.exercises) <= MaxStoreExercises
          /\ UpdateWorkout(u, w, d, "none")
    \/ \E u \in Users, w \in StoreWorkoutIds : DeleteWorkout(u, w, "none")
    \/ \E u \in Users, g \in ExerciseGoals : CalculateRequest(g[1], u, g[2])

SpecStrategy == Init /\ [][NextStrategy]_vars

-----------------------------------------------------------------------------
(* Exercises whose unit strings the converter does not know.  ExerciseBase *)
(* declares weight_unit and distance_unit as plain strings, so             *)
(* create_workout stores whatever the request carries.                     *)

stones == <<"s", "t", "o", "n", "e", "s">>
meters == <<"m", "e", "t", "e", "r", "s">>

\* WorkoutCreate requests: a set and a run in known units, a set in stones
\* and a run in meters
OddUnitWorkoutInputs ==
    {[date |-> 1, duration_minutes |-> 30,
      exercises |-> <<Strength(BenchPress, 5, 2 * Scale, kg)>>],
     [date |-> 1, duration_minutes |-> 30,
      exercises |-> <<Strength(BenchPress, 5, Scale, stones)>>],
     [date |-> 2, duration_minutes |-> 45,
      exercises |-> <<Cardio(MorningRun, 5 * Scale, km)>>],
     [date |-> 2, duration_minutes |-> 45,
      exercises |-> <<Cardio(MorningRun, 3 * Scale, meters)>>]}

\* weight and distance goals named after the exercises
OddUnitGoals == {<<kg, BenchTitle>>, <<lbs, BenchTitle>>, <<km, RunTitle>>,
                 <<miles, FarTitle>>}

NextOddUnits ==
    \/ Return
    \/ \E u \in Users, d \in OddUnitWorkoutInputs :
          /\ Len(workouts) < MaxStoreWorkouts
          /\ Len(exercises) + Len(d.exercises) <= MaxStoreExercises
          /\ CreateWorkout(u, d, "none")
    \/ \E u \in Users, w \in StoreWorkoutIds : DeleteWorkout(u, w, "none")
    \/ \E u \in Users, g \in OddUnitGoals : CalculateRequest(g[1], u, g[2])

SpecOddUnits == Init /\ [][NextOddUnits]_vars

-----------------------------------------------------------------------------
(* Body measurements of two users, and the weight strategy of a goal whose *)
(* title has body-weight wording.                                          *)

\* MeasurementCreate / MeasurementUpdate: measured_at and weight, either
\* of which may be left None
MeasurementInputs ==
    {[measured_at |-> None, weight |-> 7 * Scale],
     [measured_at |-> None, weight |-> 8 * Scale],
     [measured_at |-> 1, weight |-> None]}

MeasurementUpdates ==
    {[measured_at |-> 2, weight |-> None],
     [measured_at |-> None, weight |-> 6 * Scale]}

MeasurementIds == 1..MaxMeasurements

\* a workout with an exercise whose name matches WeightedTitle
BodyWorkoutInputs ==
    {[date |-> 1, duration_minutes |-> 30,
      exercises |-> <<Strength(WeightedDips, 5, 2 * Scale, kg)>>]}

\* kg/lbs goals whose titles have body-weight wording
BodyGoals == {<<kg, WeightedTitle>>, <<lbs, WeightedTitle>>, <<kg, LoseTitle>>}

NextBody ==
    \/ Return
    \/ Tick
    \/ \E u \in Users, d \in MeasurementInputs :
          Len(measurements) < MaxMeasurements /\ CreateMeasurement(u, d, "none")
    \/ \E u \in Users, m \in MeasurementIds, d \in MeasurementUpdates :
          UpdateMeasurement(u, m, d, FALSE)
    \/ \E u \in Users, m \in MeasurementIds : DeleteMeasurement(u, m, FALSE)
    \/ \E u \in Users, d \in BodyWorkoutInputs :
          /\ Len(workouts) < MaxWorkouts
          /\ Len(exercises) + Len(d.exercises) <= MaxExercises
          /\ CreateWorkout(u, d, "none")
    \/ \E u \in Users, g \in BodyGoals : CalculateRequest(g[1], u, g[2])

SpecBody == Init /\ [][NextBody]_vars

-----------------------------------------------------------------------------
(* Specification of UnitConverter: a value and two unit strings are drawn  *)
(* from bounded sets, one action per class method applies it.  The         *)
(* normalize_* methods are called with their default target unit.          *)

\* unit strings as callers spell them: the supported units in lower, upper
\* and mixed case, and two the converter does not know
UnitSpellings ==
    {kg, <<"K", "G">>, lbs, <<"L", "B", "S">>, <<"L", "b", "s">>,
     km, <<"K", "M">>, miles, <<"M", "I", "L", "E", "S">>,
     <<"s", "t", "o", "n", "e", "s">>, <<"m", "e", "t", "e", "r", "s">>}

\* 0, 0.5, 4.2, 10, 22, 42.2 and 100
ConvertValues == {0, 5, 42, 10 * Scale, 22 * Scale, 422, 100 * Scale}

InitConvert ==
    /\ args \in [value : ConvertValues, from_unit : UnitSpellings,
                 to_unit : UnitSpellings]
    /\ now = 0
    /\ out = NoOut
    /\ goals = <<>>
    /\ workouts = <<>>
    /\ exercises = <<>>
    /\ measurements = <<>>
    /\ pc = "idle"
    /\ run = IdleRun
    /\ result = NoResult

ApplyConvertWeight ==
    /\ out.done = {}
    /\ out' = [out EXCEPT !.done = {"convert_weight"},
                          !.values = {convert_weight(args.value, args.from_unit,
                                                     args.to_unit)}]
    /\ UNCHANGED <<goals, activity, now, pc, run, result, args>>

ApplyConvertDistance ==
    /\ out.done = {}
    /\ out' = [out EXCEPT !.done = {"convert_distance"},
                          !.values = {convert_distance(args.value, args.from_unit,
                                                       args.to_unit)}]
    /\ UNCHANGED <<goals, activity, now, pc, run, result, args>>

ApplyNormalizeWeight ==
    /\ out.done = {}
    /\ out' = [out EXCEPT !.done = {"normalize_weight"},
                          !.values = {normalize_weight(args.value, args.from_unit, kg)}]
    /\ UNCHANGED <<goals, activity, now, pc, run, result, args>>

ApplyNormalizeDistance ==
    /\ out.done = {}
    /\ out' = [out EXCEPT !.done = {"normalize_distance"},
                          !.values = {normalize_distance(args.value, args.from_unit,
                                                         km)}]
    /\ UNCHANGED <<goals, activity, now, pc, run, result, args>>

NextConvert ==
    \/ ApplyConvertWeight
    \/ ApplyConvertDistance
    \/ ApplyNormalizeWeight
    \/ ApplyNormalizeDistance

SpecConvert == InitConvert /\ [][NextConvert]_vars

-----------------------------------------------------------------------------
(* Goals kept up to date by the activity operations: every workout and     *)
(* measurement operation of two users, served one at a time, no store      *)
(* call failing.                                                           *)

\* GoalCreate requests: a workout count, an exercise weight and a body
\* weight goal
ActivityGoalInputs ==
    {NewGoal(WorkoutsTitle, <<"w", "o", "r", "k", "o", "u", "t", "s">>, None, Scale, NoDate),
     NewGoal(BenchTitle, kg, None, 3 * Scale, NoDate),
     NewGoal(LoseTitle, lbs, 8 * Scale, 7 * Scale, NoDate)}

NextActivity ==
    \/ Return
    \/ \E u \in Users, d \in ActivityGoalInputs :
          Len(goals) < MaxGoals /\ CreateGoal(u, d, FALSE)
    \/ \E u \in Users, d \in WorkoutInputs :
          /\ Len(workouts) < MaxWorkouts
          /\ Len(exercises) + Len(d.exercises) <= MaxStoreExercises
          /\ CreateWorkout(u, d, "none")
    \/ \E u \in Users, w \in WorkoutIds, d \in StoreWorkoutUpdates :
          /\ Len(exercises) + Len(d.exercises) <= MaxStoreExercises
          /\ UpdateWorkout(u, w, d, "none")
    \/ \E u \in Users, w \in WorkoutIds : DeleteWorkout(u, w, "none")
    \/ \E u \in Users, d \in MeasurementInputs :
          /\ Len(measurements) < MaxActivityMeasurements
          /\ CreateMeasurement(u, d, "none")
    \/ \E u \in Users, m \in MeasurementIds, d \in MeasurementUpdates :
          UpdateMeasurement(u, m, d, FALSE)
    \/ \E u \in Users, m \in MeasurementIds : DeleteMeasurement(u, m, FALSE)
    \/ SyncStep("none")
    \/ SyncFinish

SpecActivity == Init /\ [][NextActivity]_vars

-----------------------------------------------------------------------------
(* Requests served concurrently.  A sync run that is between two of its    *)
(* store calls (after the goal load, between two goals) can be overtaken   *)
(* by other requests: the run is parked in `args`, the other requests are  *)
(* served, and the run resumes with the goals as it loaded them.           *)
(* out.done = {"resumed"} marks a run that was overtaken.                  *)

NoParked == [parked |-> FALSE, run |-> IdleRun]

\* GoalCreate requests: an increasing and a decreasing workout count goal
RaceGoalInputs ==
    {NewGoal(WorkoutsTitle, <<"w", "o", "r", "k", "o", "u", "t", "s">>, None, Scale, NoDate),
     NewGoal(WorkoutsTitle, <<"w", "o", "r", "k", "o", "u", "t", "s">>, 2 * Scale, Scale,
             NoDate)}

\* GoalUpdate requests: a new target_value, a new current_value
RaceGoalUpdates ==
    {GoalUpdate(<<>>, 2 * Scale, None, <<>>, NoDate),
     GoalUpdate(<<>>, None, Scale, <<>>, NoDate)}

InitRace ==
    /\ goals = <<>>
    /\ workouts = <<>>
    /\ exercises = <<>>
    /\ measurements = <<>>
    /\ now = 0
    /\ pc = "idle"
    /\ run = IdleRun
    /\ result = NoResult
    /\ args = NoParked
    /\ out = NoOut

\* another request arrives while the sync run waits for the store
Suspend ==
    /\ pc = "sync"
    /\ ~args.parked
    /\ args' = [parked |-> TRUE, run |-> run]
    /\ run' = IdleRun
    /\ pc' = "idle"
    /\ out' = NoOut
    /\ UNCHANGED <<goals, activity, now, result>>

\* the parked sync run goes on
Resume ==
    /\ pc = "idle"
    /\ args.parked
    /\ run' = args.run
    /\ args' = NoParked
    /\ pc' = "sync"
    /\ out' = [NoOut EXCEPT !.done = {"resumed"}]
    /\ UNCHANGED <<goals, activity, now, result>>

NextRace ==
    \/ Return
    \/ Suspend
    \/ Resume
    \/ \E u \in Users, d \in RaceGoalInputs :
          Len(goals) < MaxCrudGoals /\ CreateGoal(u, d, FALSE)
    \/ \E u \in Users, g \in CrudGoalIds, d \in RaceGoalUpdates :
          UpdateGoal(u, g, d, FALSE)
    \/ \E u \in Users, g \in CrudGoalIds : UpdateGoalProgress(u, g, 2 * Scale, FALSE)
    \/ \E u \in Users, g \in CrudGoalIds : DeleteGoal(u, g, FALSE)
    \/ \E u \in Users, d \in WorkoutInputs :
          /\ Len(workouts) < MaxWorkouts
          /\ Len(exercises) + Len(d.exercises) <= MaxExercises
          /\ CreateWorkout(u, d, "none")
    \/ \E u \in Users, w \in WorkoutIds : DeleteWorkout(u, w, "none")
    \/ \E u \in Users : SyncUserGoals(u, FALSE)
    \/ SyncStep("none")
    \/ SyncFinish

SpecRace == InitRace /\ [][NextRace]_vars

-----------------------------------------------------------------------------
(* C1..C3 *)

\* C1: is_goal_achieved(initial, current, target) is (current >= target)
\* whenever initial <= target (initial = target included) and
\* (current <= target) whenever initial > target.
C1_AchievedByDirection ==
    "is_goal_achieved" \in out.done =>
        /\ args.initial_value <= args.target_value =>
               out.achieved = (args.current_value >= args.target_value)
        /\ args.initial_value > args.target_value =>
               out.achieved = (args.current_value <= args.target_value)

\* the boundary case: initial = target, current above it, judged as increasing
C1_Witness ==
    /\ "is_goal_achieved" \in out.done
    /\ out.achieved = TRUE
    /\ args.initial_value = args.target_value
    /\ args.current_value > args.target_value

\* C2: on the same inputs calculate_goal_status answers "completed" exactly
\* when is_goal_achieved answers true, whatever the target_date and the clock.
C2_SameAchievementRule ==
    out.done = {"is_goal_achieved", "calculate_goal_status"} =>
        ((out.status = "completed") <=> (out.achieved = TRUE))

\* both functions applied, achieved although the date is overdue
C2_Witness ==
    /\ out.done = {"is_goal_achieved", "calculate_goal_status"}
    /\ out.achieved = TRUE
    /\ out.status = "completed"
    /\ args.target_date.kind = "iso"
    /\ args.target_date.at < now

-----------------------------------------------------------------------------
(* C4..C8: one sync run.  run.loaded[i] is the i-th goal as the run loaded *)
(* it, run.trace[i] what _sync_single_goal did for it.                     *)

\* C4: whenever the strategy's result is None or equals the current_value of
\* the goal as loaded, _sync_single_goal returns None and issues no update:
\* the stored row is the same before and after, updated_at included.
C4_NoWriteWhenUnchanged ==
    \A i \in DOMAIN run.trace :
        LET t == run.trace[i]
            goal == run.loaded[i]
        IN  (t.outcome.new_value = None \/ t.outcome.new_value = goal.current_value)
            => /\ ~t.outcome.returned
               /\ ~t.outcome.update_issued
               /\ t.after = t.before

\* a finished run that met both cases: a strategy that computed nothing for
\* one goal, and one that recomputed the stored value of another
C4_Witness ==
    /\ pc = "done"
    /\ \E i, j \in DOMAIN run.trace :
          /\ run.trace[i].outcome.dispatched
          /\ run.trace[i].outcome.new_value = None
          /\ run.trace[j].outcome.dispatched
          /\ run.trace[j].outcome.new_value = run.loaded[j].current_value

\* C5: a goal whose lower-cased unit is none of the eight registered keys is
\* passed to no strategy, causes no store query and no write, gets no detail
\* record (is not counted), and the sync_user_goals run it is part of still
\* returns success.
C5_UnsupportedUnitSkipped ==
    \A i \in DOMAIN run.trace :
        LET t == run.trace[i]
            goal == run.loaded[i]
        IN  Lower(goal.unit) \notin StrategyKeys
            => /\ ~t.outcome.dispatched
               /\ t.outcome.queries = 0
               /\ ~t.outcome.update_issued
               /\ t.after = t.before
               /\ \A d \in DOMAIN run.details : run.details[d].goal_id # goal.id
               /\ run.updated_count <= Len(run.trace) - 1
               /\ (pc = "done" /\ result.op = "sync_user_goals")
                     => (result.success /\ ~result.raised)

\* a finished sync_user_goals run over a goal in "widgets" and a goal that
\* was updated
C5_Witness ==
    /\ pc = "done"
    /\ result.op = "sync_user_goals"
    /\ result.success
    /\ result.updated = 1
    /\ \E i \in DOMAIN run.trace :
          run.loaded[i].unit = <<"w", "i", "d", "g", "e", "t", "s">>

\* C6: sync_user_goals always returns success=true and never lets an error
\* reach its caller, whichever store call fails (the initial load of the
\* goals included); with no goals it returns success=true and updated=0.
C6_SyncAlwaysSucceeds ==
    (pc = "done" /\ result.op = "sync_user_goals")
        => /\ result.success
           /\ ~result.raised
           /\ run.loaded = <<>> => result.updated = 0

\* the computation raised, or the update was issued and did not complete
Failed(o) == o.new_value = Raised \/ (o.update_issued /\ ~o.written)

\* C7: a goal whose strategy computation or row update fails is not counted
\* and gets no detail record; every other goal of the run is computed as if
\* nothing had failed and, if its value changed, is persisted, gets its
\* detail record and is counted; the run reaches every loaded goal.
C7_FailureContained ==
    /\ \A i \in DOMAIN run.trace :
          LET t == run.trace[i]
              goal == run.loaded[i]
          IN  IF Failed(t.outcome)
              THEN /\ t.after = t.before
                   /\ \A d \in DOMAIN run.details : run.details[d].goal_id # goal.id
              ELSE /\ t.outcome \in SyncSingleGoal(run.user_id, goal, workouts,
                                                  exercises, measurements, "none")
                   /\ t.outcome.update_issued
                         => /\ t.after = SyncUpdate(t.before, t.outcome)
                            /\ \E d \in DOMAIN run.details :
                                  run.details[d] = Detail(goal, t.outcome)
    /\ run.updated_count =
          Cardinality({i \in DOMAIN run.trace :
                          /\ ~Failed(run.trace[i].outcome)
                          /\ run.trace[i].outcome.update_issued})
    /\ pc = "done" => Len(run.trace) = Len(run.loaded)

\* a finished run whose first goal failed and whose second goal was written
C7_Witness ==
    /\ pc = "done"
    /\ Len(run.trace) = 2
    /\ Failed(run.trace[1].outcome)
    /\ run.trace[2].outcome.written
    /\ run.updated_count = 1

\* C8: a run passes once over each loaded goal and issues an update exactly
\* for the goals whose value was computed and differs from the loaded
\* current_value, so at most one per goal; the updated count returned equals
\* the number of detail records and the number of updates that completed.
C8_OneUpdatePerChangedGoal ==
    /\ \A i \in DOMAIN run.trace :
          LET t == run.trace[i]
              goal == run.loaded[i]
          IN  /\ t.goal_id = goal.id
              /\ t.outcome.update_issued
                    <=> /\ t.outcome.new_value \notin {None, Raised}
                        /\ t.outcome.new_value # goal.current_value
    /\ \A i, j \in DOMAIN run.trace :
          run.trace[i].goal_id = run.trace[j].goal_id => i = j
    /\ Len(run.trace) <= Len(run.loaded)
    /\ (pc = "done" /\ result.op = "sync_user_goals" /\ ~result.raised)
          => /\ result.updated = Len(run.details)
             /\ result.updated =
                   Cardinality({i \in DOMAIN run.trace : run.trace[i].outcome.written})
             /\ Len(run.trace) = Len(run.loaded)

\* a finished sync_user_goals run with one completed and one failed update
C8_Witness ==
    /\ pc = "done"
    /\ result.op = "sync_user_goals"
    /\ result.updated = 1
    /\ Len(run.trace) = 2
    /\ \E i \in DOMAIN run.trace :
          run.trace[i].outcome.update_issued /\ ~run.trace[i].outcome.written

-----------------------------------------------------------------------------
(* C9, C10 *)

\* the exercises whose parent workout is owned by user_id and not deleted
OwnExercises(user_id, W, E) ==
    SelectSeq(E, LAMBDA e : e.workout_id \in UserWorkouts(user_id, W))

\* C9: the value a weight, reps or distance strategy computes for a user is
\* the value it computes when the exercises table holds only the exercises
\* of that user's own, not deleted workouts: no exercise of another user's
\* workout contributes, whether or not it matches the name filter.
C9_CrossUserIsolation ==
    "calculate" \in out.done
        => out.values = Calculate(out.unit, out.user_id, out.title, workouts,
                                  OwnExercises(out.user_id, workouts, exercises),
                                  measurements)

\* a weight computed for a user while another user's live workout holds a
\* heavier exercise matching the name filter
C9_Witness ==
    /\ "calculate" \in out.done
    /\ out.unit = kg
    /\ out.values = {2 * Scale}
    /\ \E e \in DOMAIN exercises :
          /\ NameMatchesTitle(exercises[e].name, out.title)
          /\ workouts[exercises[e].workout_id].user_id # out.user_id
          /\ workouts[exercises[e].workout_id].deleted_at = None
          /\ convert_weight(exercises[e].weight, exercises[e].weight_unit, kg)
                > 2 * Scale

\* C10: no step changes the initial_value of a goal that exists: whatever
\* update_goal, update_goal_progress, delete_goal and the syncs do, it stays
\* the value create_goal stored.
C10_InitialValueImmutable ==
    [][\A g \in DOMAIN goals :
          /\ g \in DOMAIN goals'
          /\ goals'[g].initial_value = goals[g].initial_value]_vars

\* update_goal has just succeeded on a goal whose current_value has moved
\* away from its initial_value
C10_Witness ==
    /\ pc = "done"
    /\ result.op = "update_goal"
    /\ result.success
    /\ \E g \in DOMAIN goals : goals[g].current_value # goals[g].initial_value
-----------------------------------------------------------------------------
(* C11, C12: the goal life cycle *)

\* C11: every goal that is not deleted has status "completed" exactly when
\* achieved is true, whatever sequence of create_goal, update_goal,
\* update_goal_progress and syncs produced it.
C11_StatusIffAchieved ==
    \A g \in DOMAIN goals :
        goals[g].deleted_at = None
            => (goals[g].status = "completed" <=> goals[g].achieved)
\* C12: a goal is only soft-deleted and stays deleted.  delete_goal on the
\* caller's live goal keeps the row and sets deleted_at and status
\* "archived"; no step changes a deleted row, so deleted_at never becomes
\* null again; no read returns the goal and no sync run loads it; update_goal,
\* update_goal_progress and a repeated delete_goal on it return "Goal not
\* found".
C12_SoftDeleteIsPermanent ==
    [][/\ \A g \in DOMAIN goals :
             /\ g \in DOMAIN goals'
             /\ goals[g].deleted_at # None => goals'[g] = goals[g]
       /\ \A u \in Users, g \in DOMAIN goals :
             /\ (GoalVisible(u, g) /\ DeleteGoal(u, g, FALSE))
                   => /\ result'.success
                      /\ goals'[g].deleted_at # None
                      /\ goals'[g].status = "archived"
             /\ goals[g].deleted_at # None
                   => /\ ~GoalVisible(u, g)
                      /\ \A i \in DOMAIN LiveGoalsOf(u) : LiveGoalsOf(u)[i].id # g
                      /\ \A i \in DOMAIN run'.loaded : run'.loaded[i].id # g
                      /\ DeleteGoal(u, g, FALSE) => result'.error = "Goal not found"
                      /\ \A v \in Values :
                            UpdateGoalProgress(u, g, v * Scale, FALSE)
                               => result'.error = "Goal not found"
                      /\ \A d \in GoalUpdates :
                            UpdateGoal(u, g, d, FALSE)
                               => result'.error = "Goal not found"]_vars
-----------------------------------------------------------------------------
(* C13..C18: what each strategy computes over the activity store *)

\* the user's workouts that are not soft-deleted
LiveWorkoutsOf(user_id) ==
    {w \in DOMAIN workouts : /\ workouts[w].user_id = user_id
                             /\ workouts[w].deleted_at = None}

\* C13: for a goal in "workouts" the strategy returns the number of the
\* user's workouts that are not soft-deleted, 0 when there are none and
\* never None: deleted workouts and other users' workouts are not counted.
C13_WorkoutCount ==
    ("calculate" \in out.done /\ out.unit = <<"w", "o", "r", "k", "o", "u", "t", "s">>)
        => out.values = {Scale * Cardinality(LiveWorkoutsOf(out.user_id))}

\* a count of one for a user while the store holds a second workout, which
\* is deleted or another user's
C13_Witness ==
    /\ "calculate" \in out.done
    /\ out.unit = <<"w", "o", "r", "k", "o", "u", "t", "s">>
    /\ out.values = {Scale}
    /\ Len(workouts) = 2
    /\ \E w \in DOMAIN workouts :
          workouts[w].user_id = out.user_id /\ workouts[w].deleted_at # None
\* the minutes of the user's live workouts among the first n rows, a
\* workout without duration_minutes counting 0
RECURSIVE MinutesUpTo(_, _)
MinutesUpTo(user_id, n) ==
    IF n = 0 THEN 0
    ELSE MinutesUpTo(user_id, n - 1)
         + (IF n \in LiveWorkoutsOf(user_id) /\ workouts[n].duration_minutes # None
            THEN workouts[n].duration_minutes ELSE 0)

\* C14: for a goal in "minutes" the strategy returns the sum of
\* duration_minutes over the user's live workouts, a missing duration
\* counting 0 and raising nothing; it returns 0 without workouts.
C14_DurationSum ==
    ("calculate" \in out.done /\ out.unit = <<"m", "i", "n", "u", "t", "e", "s">>)
        => out.values = {Scale * MinutesUpTo(out.user_id, Len(workouts))}

\* a sum over two live workouts of the user, one of them without a duration
C14_Witness ==
    /\ "calculate" \in out.done
    /\ out.unit = <<"m", "i", "n", "u", "t", "e", "s">>
    /\ out.values = {Scale * 30}
    /\ Cardinality(LiveWorkoutsOf(out.user_id)) = 2
    /\ \E w \in LiveWorkoutsOf(out.user_id) : workouts[w].duration_minutes = None

\* C15: for a goal in "days" the strategy returns the number of distinct
\* dates among the user's live workouts: workouts sharing a date count once,
\* a workout without a date counts for nothing, and the result never exceeds
\* the number of workouts.
C15_UniqueDays ==
    ("calculate" \in out.done /\ out.unit = <<"d", "a", "y", "s">>)
        => /\ out.values =
                 {Scale * Cardinality({t \in Times \cup {MaxTime + 1} :
                     \E w \in LiveWorkoutsOf(out.user_id) : workouts[w].date = t})}
           /\ \A v \in out.values :
                 v <= Scale * Cardinality(LiveWorkoutsOf(out.user_id))

\* one day counted for two live workouts of the user on the same date
C15_Witness ==
    /\ "calculate" \in out.done
    /\ out.unit = <<"d", "a", "y", "s">>
    /\ out.values = {Scale}
    /\ \E v, w \in LiveWorkoutsOf(out.user_id) :
          v # w /\ workouts[v].date = workouts[w].date /\ workouts[v].date # None
\* the exercise rows matching the name extracted from the title whose
\* parent workout is the user's and not deleted.  The rows are taken as
\* stored.
MatchingOwn(user_id, title) ==
    {e \in DOMAIN exercises :
        /\ NameMatchesTitle(exercises[e].name, title)
        /\ exercises[e].workout_id \in LiveWorkoutsOf(user_id)}

\* the weight of exercise row e in `unit`
WeightIn(e, unit) ==
    convert_weight(exercises[e].weight, exercises[e].weight_unit, unit)

\* C16: for a kg/lbs goal without body-weight wording the strategy returns
\* the largest weight, each converted to the goal's unit, among the matching
\* exercises of the user's own live workouts; for a reps goal the largest
\* reps; None when no such record has a positive value.
C16_ExerciseMaximum ==
    /\ ("calculate" \in out.done /\ out.unit \in {kg, lbs}
          /\ ExtractExerciseName(out.title) # <<>> /\ ~IsBodyWeightGoal(out.title))
          => LET rows == {e \in MatchingOwn(out.user_id, out.title) :
                             /\ exercises[e].weight # None
                             /\ WeightIn(e, out.unit) > 0}
             IN  IF rows = {} THEN out.values = {None}
                 ELSE \E e \in rows :
                         /\ out.values = {WeightIn(e, out.unit)}
                         /\ \A f \in rows : WeightIn(f, out.unit) <= WeightIn(e, out.unit)
    /\ ("calculate" \in out.done /\ out.unit = <<"r", "e", "p", "s">>
          /\ ExtractExerciseName(out.title) # <<>>)
          => LET rows == {e \in MatchingOwn(out.user_id, out.title) :
                             exercises[e].reps # None /\ exercises[e].reps > 0}
             IN  IF rows = {} THEN out.values = {None}
                 ELSE \E e \in rows :
                         /\ out.values = {Scale * exercises[e].reps}
                         /\ \A f \in rows : exercises[f].reps <= exercises[e].reps

\* a kg goal computed from two matching records of the user, one logged in
\* kg and one in lbs, the record in lbs being the heavier one in kg
C16_Witness ==
    /\ "calculate" \in out.done
    /\ out.unit = kg
    /\ \E e, f \in MatchingOwn(out.user_id, out.title) :
          /\ exercises[e].weight_unit = kg
          /\ exercises[f].weight_unit = lbs
          /\ WeightIn(e, kg) < WeightIn(f, kg)
          /\ out.values = {WeightIn(f, kg)}

-----------------------------------------------------------------------------
(* C17 *)

\* the user's live measurements that carry a weight
WeighedOf(user_id) ==
    {m \in DOMAIN measurements : /\ measurements[m].user_id = user_id
                                 /\ measurements[m].deleted_at = None
                                 /\ measurements[m].weight # None}

\* the weight of a measurement (kg when no unit is stored) in `unit`
BodyWeightIn(m, unit) ==
    LET stored == IF measurements[m].weight_unit = <<>> THEN kg
                  ELSE measurements[m].weight_unit
    IN  IF stored = unit THEN measurements[m].weight
        ELSE IF unit = lbs THEN RoundDiv(measurements[m].weight * 220462, 100000)
        ELSE RoundDiv(measurements[m].weight * 453592, 1000000)

\* C17: for a kg/lbs goal whose title has body-weight wording the weight
\* strategy returns the weight of the user's most recent live measurement
\* that has a weight, in the goal's unit, whatever exercises there are, and
\* not-computable when the user has no such measurement
C17_BodyWeightFromLatestMeasurement ==
    (/\ out.done = {"calculate"}
     /\ out.unit \in {kg, lbs}
     /\ IsBodyWeightGoal(out.title))
        => IF WeighedOf(out.user_id) = {}
           THEN out.values = {None}
           ELSE LET MostRecent ==
                        {m \in WeighedOf(out.user_id) :
                            \A n \in WeighedOf(out.user_id) :
                                measurements[n].measured_at <= measurements[m].measured_at}
                IN  out.values = {BodyWeightIn(m, out.unit) : m \in MostRecent}

\* a lbs goal named after an exercise the user has logged, answered from
\* the later of the user's two weighed measurements
C17_Witness ==
    /\ out.done = {"calculate"}
    /\ out.unit = lbs
    /\ out.title = WeightedTitle
    /\ \E w \in DOMAIN workouts, e \in DOMAIN exercises :
          /\ workouts[w].user_id = out.user_id
          /\ workouts[w].deleted_at = None
          /\ exercises[e].workout_id = w
          /\ NameMatchesTitle(exercises[e].name, out.title)
    /\ \E m, n \in WeighedOf(out.user_id) :
          /\ measurements[m].measured_at < measurements[n].measured_at
          /\ measurements[m].weight # measurements[n].weight
          /\ out.values = {RoundDiv(measurements[n].weight * 220462, 100000)}

-----------------------------------------------------------------------------
(* C18 *)

\* the exercises with a distance in the user's own live workouts that match
\* the exercise name of `title`, or all of them when the title yields none
DistanceOwn(user_id, title) ==
    {e \in DOMAIN exercises :
        /\ exercises[e].workout_id \in LiveWorkoutsOf(user_id)
        /\ exercises[e].distance # None
        /\ ExtractExerciseName(title) # <<>>
              => NameMatchesTitle(exercises[e].name, title)}

\* the distance of an exercise in `unit`
DistanceIn(e, unit) ==
    IF exercises[e].distance_unit = unit THEN exercises[e].distance
    ELSE IF unit = miles THEN RoundDiv(exercises[e].distance * 621371, 1000000)
    ELSE RoundDiv(exercises[e].distance * 160934, 100000)

\* the converted distances of the first n exercise rows that are in S
RECURSIVE DistanceUpTo(_, _, _)
DistanceUpTo(S, unit, n) ==
    IF n = 0 THEN 0
    ELSE DistanceUpTo(S, unit, n - 1) + (IF n \in S THEN DistanceIn(n, unit) ELSE 0)

\* C18: a km/miles goal is answered with the sum of the distances, each in
\* the goal's unit, of the exercises of the user's own live workouts that
\* match the title's exercise name (of all exercises with a distance when
\* the title yields no name), and with not-computable when that sum is zero
C18_DistanceSum ==
    (/\ out.done = {"calculate"}
     /\ out.unit \in {km, miles})
        => LET total == DistanceUpTo(DistanceOwn(out.user_id, out.title), out.unit,
                                     Len(exercises))
           IN  out.values = IF total = 0 THEN {None} ELSE {total}

\* a total over two runs logged in different units, for a title that
\* yields no exercise name and for one that does
C18_Witness ==
    /\ out.done = {"calculate"}
    /\ out.unit \in {km, miles}
    /\ \E e, f \in DistanceOwn(out.user_id, out.title) :
          /\ exercises[e].distance_unit = km
          /\ exercises[f].distance_unit = miles
          /\ out.values = {DistanceIn(e, out.unit) + DistanceIn(f, out.unit)}

-----------------------------------------------------------------------------
(* C19, C20 *)

\* the unit a spelling names, whatever its case
UnitNamed(spelling) ==
    IF spelling \in {kg, <<"K", "G">>} THEN kg
    ELSE IF spelling \in {lbs, <<"L", "B", "S">>, <<"L", "b", "s">>} THEN lbs
    ELSE IF spelling \in {km, <<"K", "M">>} THEN km
    ELSE IF spelling \in {miles, <<"M", "I", "L", "E", "S">>} THEN miles
    ELSE spelling

\* C19: convert_weight and convert_distance compare the units whatever their
\* case; when the two name the same unit the value comes back unchanged;
\* kg<->lbs (weight) and km<->miles (distance) yield a value; every other
\* pair, a weight unit given to convert_distance and a distance unit given
\* to convert_weight included, fails with the unsupported-unit error and
\* yields no value
C19_UnitPairs ==
    LET from == UnitNamed(args.from_unit)
        to == UnitNamed(args.to_unit)
    IN  /\ out.done = {"convert_weight"} =>
              IF from = to THEN out.values = {args.value}
              ELSE IF {from, to} = {kg, lbs} THEN Raised \notin out.values
              ELSE out.values = {Raised}
        /\ out.done = {"convert_distance"} =>
              IF from = to THEN out.values = {args.value}
              ELSE IF {from, to} = {km, miles} THEN Raised \notin out.values
              ELSE out.values = {Raised}

\* convert_weight("KG", "LBS") converts
C19_Witness ==
    /\ out.done = {"convert_weight"}
    /\ args.from_unit = <<"K", "G">>
    /\ args.to_unit = <<"L", "B", "S">>
    /\ args.value = 10 * Scale
    /\ out.values = {22 * Scale}

\* C20: for two different supported units the result is the value times
\* the fixed factor (kg->lbs 2.20462, lbs->kg 0.453592, km->miles 0.621371,
\* miles->km 1.60934) rounded to one decimal place; 10 kg are 22.0 lbs,
\* 22 lbs 10.0 kg, 10 km 6.2 miles, 10 miles 16.1 km, and
\* normalize_weight(100, lbs) is 45.4
C20_FactorRounded ==
    LET from == UnitNamed(args.from_unit)
        to == UnitNamed(args.to_unit)
        is(v) == out.values = {v}
        NearestTenth(v, n, d) ==
            LET diff == v * d - n
            IN  2 * (IF diff < 0 THEN 0 - diff ELSE diff) <= d
        near(n, d) == \E v \in out.values :
                         out.values = {v} /\ v # Raised /\ NearestTenth(v, n, d)
    IN  /\ out.done = {"convert_weight"} =>
              /\ (from = kg /\ to = lbs) => near(args.value * 220462, 100000)
              /\ (from = lbs /\ to = kg) => near(args.value * 453592, 1000000)
              /\ (args.value = 10 * Scale /\ from = kg /\ to = lbs) => is(220)
              /\ (args.value = 22 * Scale /\ from = lbs /\ to = kg) => is(100)
        /\ out.done = {"convert_distance"} =>
              /\ (from = km /\ to = miles) => near(args.value * 621371, 1000000)
              /\ (from = miles /\ to = km) => near(args.value * 160934, 100000)
              /\ (args.value = 10 * Scale /\ from = km /\ to = miles) => is(62)
              /\ (args.value = 10 * Scale /\ from = miles /\ to = km) => is(161)
        /\ out.done = {"normalize_weight"} =>
              /\ from = lbs => near(args.value * 453592, 1000000)
              /\ (args.value = 100 * Scale /\ from = lbs) => is(454)
        /\ out.done = {"normalize_distance"} =>
              /\ from = miles => near(args.value * 160934, 100000)

\* normalize_weight(100, "lbs") answered with 45.4
C20_Witness ==
    /\ out.done = {"normalize_weight"}
    /\ args.value = 100 * Scale
    /\ args.from_unit = lbs
    /\ out.values = {454}

-----------------------------------------------------------------------------
(* C21 *)

-----------------------------------------------------------------------------
(* C22 *)

\* C22: exercises removed from a workout do not count: the value a weight,
\* reps or distance strategy computes is the value it computes from the
\* exercises that are not marked deleted
C22_RemovedExercisesDoNotCount ==
    (/\ out.done = {"calculate"}
     /\ out.unit \in {kg, lbs, <<"r", "e", "p", "s">>, km, miles})
        => LET LiveExercises == SelectSeq(exercises, LAMBDA e : e.deleted_at = None)
           IN  out.values = Calculate(out.unit, out.user_id, out.title, workouts,
                                      LiveExercises, measurements)

-----------------------------------------------------------------------------
(* C23 *)

\* C23: a strategy never fails because of one malformed record: the weight
\* and distance strategies skip an exercise whose unit is not recognised and
\* return the value computed from the remaining exercises
C23_MalformedRecordSkipped ==
    (/\ out.done = {"calculate"}
     /\ out.unit \in {kg, lbs, km, miles})
        => LET KnownUnitExercises ==
                   SelectSeq(exercises,
                             LAMBDA e : /\ Lower(e.weight_unit) \in {kg, lbs}
                                        /\ Lower(e.distance_unit) \in {km, miles})
           IN  /\ Raised \notin out.values
               /\ out.values = Calculate(out.unit, out.user_id, out.title, workouts,
                                         KnownUnitExercises, measurements)

-----------------------------------------------------------------------------
(* C25 *)

\* C25: create_goal stores current_value = the supplied value (0 when
\* unset) and initial_value = that same value; the new goal is stored
\* achieved with status "completed" exactly when that value equals
\* target_value, and a value above the target is not achieved
C25_CreateGoalStartingValue ==
    [][\A u \in Users, d \in CrudGoalInputs :
          (CreateGoal(u, d, FALSE) /\ result'.success)
             => LET row == goals'[Len(goals')]
                    supplied == IF d.current_value = None THEN 0 ELSE d.current_value
                IN  /\ Len(goals') = Len(goals) + 1
                    /\ row.current_value = supplied
                    /\ row.initial_value = supplied
                    /\ row.achieved <=> (supplied = d.target_value)
                    /\ (row.status = "completed") <=> (supplied = d.target_value)
                    /\ supplied > d.target_value => ~row.achieved]_vars

\* a goal created at its target and stored as completed
C25_Witness ==
    /\ result.op = "create_goal"
    /\ result.success
    /\ \E g \in DOMAIN goals :
          /\ goals[g].initial_value = goals[g].current_value
          /\ goals[g].current_value = goals[g].target_value
          /\ goals[g].current_value > 0
          /\ goals[g].achieved
          /\ goals[g].status = "completed"

-----------------------------------------------------------------------------
(* C26 *)

\* C26: with the operations run one at a time, every goal that is not
\* deleted is stored achieved exactly when its current_value has reached
\* its target_value in the direction given by its initial_value, after
\* create_goal, update_goal, update_goal_progress, sync_user_goals and the
\* sync of a single goal; a sync can turn achieved from true back to false
C26_AchievedMatchesValues ==
    \A g \in DOMAIN goals :
        goals[g].deleted_at = None
            => goals[g].achieved =
                  IF goals[g].initial_value <= goals[g].target_value
                  THEN goals[g].current_value >= goals[g].target_value
                  ELSE goals[g].current_value <= goals[g].target_value

\* a sync that ran after the user's workout was deleted and turned a goal
\* from achieved back to not achieved
C26_Witness ==
    /\ \E w \in DOMAIN workouts : workouts[w].deleted_at # None
    /\ \E i \in DOMAIN run.trace :
          /\ run.trace[i].outcome.written
          /\ run.trace[i].before.achieved
          /\ ~run.trace[i].after.achieved
          /\ goals[run.trace[i].goal_id].deleted_at = None
          /\ ~goals[run.trace[i].goal_id].achieved

-----------------------------------------------------------------------------
(* C27 *)

\* the operations that end with sync_user_goals
SyncingOps == {"create_workout", "update_workout", "delete_workout",
               "create_measurement"}

\* what the strategy of a stored goal returns on the stored activity data
ComputedFor(g) ==
    Calculate(Lower(goals[g].unit), goals[g].user_id, goals[g].title, workouts,
              exercises, measurements)

\* C27: after a successful create_workout, update_workout, delete_workout
\* or create_measurement, served alone and without store failures, every
\* goal of that user that is not deleted, whose unit has a strategy and
\* whose strategy returns a value holds that value as its current_value
C27_GoalsFollowActivity ==
    (/\ pc = "done"
     /\ result.op \in SyncingOps
     /\ result.success
     /\ run.caller = result.op)
        => \A g \in DOMAIN goals :
              (/\ goals[g].user_id = run.user_id
               /\ goals[g].deleted_at = None
               /\ HasStrategy(Lower(goals[g].unit))
               /\ ComputedFor(g) \cap {None, Raised} = {})
                 => goals[g].current_value \in ComputedFor(g)

\* update_workout replaced the exercises and the sync moved the user's
\* exercise goal to the new maximum
C27_Witness ==
    /\ pc = "done"
    /\ result.op = "update_workout"
    /\ result.success
    /\ \E i \in DOMAIN run.trace :
          /\ run.trace[i].outcome.written
          /\ goals[run.trace[i].goal_id].unit = kg
          /\ goals[run.trace[i].goal_id].current_value = 3 * Scale
          /\ ComputedFor(run.trace[i].goal_id) = {3 * Scale}

-----------------------------------------------------------------------------
(* C28 *)

\* C28: body-weight goals follow measurement edits: after a successful
\* update_measurement or delete_measurement every kg/lbs body-weight goal of
\* that user that is not deleted holds the weight of the user's latest
\* measurement that is not deleted, in the goal's unit
C28_GoalsFollowMeasurementEdits ==
    [][\A u \in Users, m \in MeasurementIds :
          (/\ \/ \E d \in MeasurementUpdates : UpdateMeasurement(u, m, d, FALSE)
              \/ DeleteMeasurement(u, m, FALSE)
           /\ result'.success)
             => \A g \in DOMAIN goals' :
                   LET unit == Lower(goals'[g].unit)
                       latest == GetBodyWeight(unit, u, measurements')
                   IN  (/\ goals'[g].user_id = u
                        /\ goals'[g].deleted_at = None
                        /\ unit \in {kg, lbs}
                        /\ IsBodyWeightGoal(goals'[g].title)
                        /\ latest \cap {None, Raised} = {})
                          => goals'[g].current_value \in latest]_vars

-----------------------------------------------------------------------------
(* C29 *)

\* C29: the result of an activity operation does not depend on the sync it
\* triggers: create_workout, update_workout, delete_workout and
\* create_measurement report success = false only when their own row was
\* not written, whatever happens inside the trailing sync_user_goals
C29_ResultIndependentOfSync ==
    [][(/\ pc = "idle"
        /\ pc' = "done"
        /\ result'.op \in SyncingOps
        /\ ~result'.success)
          => activity' = activity]_vars

-----------------------------------------------------------------------------
(* C30, C24 *)

\* C30: a sync run never changes current_value, achieved or updated_at of a
\* goal that is soft-deleted at the moment of the write, and never reports
\* such a goal as updated, even when delete_goal for that goal was served
\* between the run's load of the goals and its update of the row
C30_SyncLeavesDeletedGoals ==
    [][(/\ pc = "sync"
        /\ Len(run'.trace) = Len(run.trace) + 1)
          => LET t == run'.trace[Len(run'.trace)]
             IN  goals[t.goal_id].deleted_at # None
                    => /\ goals'[t.goal_id] = goals[t.goal_id]
                       /\ ~t.outcome.returned]_vars

\* C24: races on a goal row are healed by the next sync: when every other
\* request has finished, one sync_user_goals run that nothing overtakes
\* leaves every goal of the user that has a strategy and a computable value
\* with current_value equal to the value computed from the activity data
\* and achieved equal to is_goal_achieved(initial_value, current_value,
\* target_value)
C24_NextSyncHeals ==
    (/\ pc = "done"
     /\ result.op = "sync_user_goals"
     /\ result.success
     /\ ~args.parked
     /\ "resumed" \notin out.done)
        => \A g \in DOMAIN goals :
              (/\ goals[g].user_id = run.user_id
               /\ goals[g].deleted_at = None
               /\ HasStrategy(Lower(goals[g].unit))
               /\ ComputedFor(g) \cap {None, Raised} = {})
                 => /\ goals[g].current_value \in ComputedFor(g)
                    /\ goals[g].achieved =
                          is_goal_achieved(goals[g].initial_value,
                                           goals[g].current_value,
                                           goals[g].target_value)

=============================================================================
